---- MODULE Spec2Model ----
(***************************************************************************)
(* Acquisition pipeline of the filing downloader: the request gate         *)
(* (utils/rate_limiter.py, services/sec_api.py), the download executor     *)
(* (services/downloader.py, download_all_pending.py, jobs/incremental.py)  *)
(* and the requeue sweeps (repair_failed_artifacts.py,                     *)
(* nasdaq_backfill_pipeline.py).                                           *)
(***************************************************************************)
EXTENDS Integers, Sequences, FiniteSets, TLC

(***************************************************************************)
(* Bounds of the model.                                                    *)
(***************************************************************************)
\* threads that call SECAPIClient._make_request
NThreads == 3
\* GETs sent by download_artifact during the limiter scenario
MaxDirect == 1
\* last clock tick of the limiter scenario
MaxTime == 7
\* configured rate (requests_per_second), in requests per model second
Rate == 2
\* clock ticks per minimum interval (resolution of the model clock)
TicksPerInterval == 2
\* HTML artifacts created by discovery
NArt == 3
\* distinct document contents the remote service can return
NContent == 2
\* executor runs (processes) that can overlap
NRuns == 2
\* largest worker-pool size
Workers == 2
\* retry ceiling given to every artifact (Artifact.max_retries)
RetryCeiling == 2
\* artifacts the query of SafeDownloader.run returns, and its largest batch
MaxList == 6
MaxBatch == 3
\* entries of a submissions feed, and the days filing dates fall on
MaxFeed == 3
MaxDate == 2
\* calls of wait() on one limiter
MaxCalls == 2
\* directories and file names an <img src> of a document can refer to
NDir == 2
NName == 2
\* <img> tags of one HTML document
MaxImgs == 2
\* distinct image contents the remote service can return
NImgContent == 2
\* companies a discovery job goes through
NCo == 2
\* discovery jobs run one after the other
MaxJobs == 2
\* feed entries that are not an ordinary filing
MaxAbnormal == 1
\* ForeignBackfillJob commits after every so many companies (i % 10 == 0)
CheckpointEvery == 10

VARIABLES
    now,                \* time.time(), in ticks
    last_request_time,  \* SECRateLimiter.last_request_time, per limiter
    request_count,      \* SECRateLimiter.request_count, per limiter
    lock,               \* SECRateLimiter.lock: the holder, 0 when free
    tpc,                \* position of each calling thread
    wakeAt,             \* earliest tick at which the thread's sleep ends
    sent,               \* requests put on the wire: [at, lim, n]
    db,                 \* committed rows of the artifacts table
    storage,            \* storage root: path -> hash of the bytes stored
    wrote,              \* artifacts whose task wrote bytes to storage
    run,                \* executor runs: state, mode, pool size
    tasks,              \* position of the task of run r for artifact a
    obj,                \* the Artifact object held by the session
    dirty,              \* its attributes modified since the last flush
    expired,            \* the object was expired by a commit of the session
    sweep,              \* ids selected by a requeue sweep that has not updated yet
    faults,             \* what the environment may let fail
    images,             \* committed rows of the image artifacts
    pend,               \* image rows a session has flushed and not committed
    todo,               \* the image loop of a task: the document and the next sequence number
    broken,             \* the session of the task needs a rollback (a flush failed)
    filings,            \* committed rows of the filings table: [acc, co]
    dsn,                \* the session of the discovery job: rows added, not committed
    dpc,                \* position of the discovery job: job, mode, company, feed entry
    feed,               \* what the submissions feed holds for each accession number
    dfail,              \* company calls of the discovery jobs that ended in the except branch
    pipeline,           \* position of run_pipeline: state and download round
    app,                \* the process: SEC_USER_AGENT of the environment, settings, headers sent
    html_urls,          \* the url of the HTML artifact of each accession number
    fslot,              \* the company, fiscal year, fiscal period and filing date of each filing
    retry,              \* a call of fetch_company_submissions under retry_with_backoff
    rq,                 \* the rows of the retry_queue table
    safe,               \* a run of SafeDownloader
    calc                \* a call of a pure function: its arguments and its result

\* the calls that run beside the download and discovery state
sidevars == <<safe, calc>>

auxvars == <<retry, rq, sidevars>>

rlvars == <<now, last_request_time, request_count, lock, tpc, wakeAt>>

dbvars == <<db, storage, wrote>>

exvars == <<run, tasks, obj, dirty, expired>>

imvars == <<images, pend, todo, broken>>

dscore == <<filings, dsn, dpc, feed, dfail, pipeline, app, html_urls, fslot>>

dsvars == <<dscore, auxvars>>

dlvars == <<db, storage, wrote, run, tasks, obj, dirty, expired, sweep, faults,
            images, pend, todo, broken, filings, dsn, dpc, feed, dfail, pipeline, app, html_urls, fslot, auxvars>>

vars == <<now, last_request_time, request_count, lock, tpc, wakeAt, sent,
          db, storage, wrote, run, tasks, obj, dirty, expired, sweep, faults,
          images, pend, todo, broken, filings, dsn, dpc, feed, dfail, pipeline, app, html_urls, fslot, auxvars>>

(***************************************************************************)
(* Rate limiter and clients.                                               *)
(***************************************************************************)
Threads == 1..NThreads

\* Every SECAPIClient() constructs its own SECRateLimiter; the threads of
\* one job share its client, another component has a client of its own.
\* The last thread belongs to the second client.
ClientOf(t) == IF t = NThreads THEN 2 ELSE 1

Limiters == {ClientOf(t) : t \in Threads}

\* min_interval = 1.0 / requests_per_second, in ticks
min_interval == TicksPerInterval

\* one second, in ticks
Second == Rate * TicksPerInterval

\* the test of line 46 with the comparison reversed (a faulty variant)
NeedsSleepInverted(elapsed) == elapsed > min_interval
\* line 46: elapsed < self.min_interval
NeedsSleep(elapsed) == elapsed < min_interval

\* the subtraction of line 47 the other way round (a faulty variant)
SleepTimeReversed(elapsed) == elapsed - min_interval
\* line 47: sleep_time = self.min_interval - elapsed
SleepTime(elapsed) == min_interval - elapsed

(***************************************************************************)
(* Artifact registry, sessions and the download executor.                  *)
(***************************************************************************)
Artifacts == 1..NArt
Contents == 1..NContent
Runs == 1..NRuns

\* Artifact.status values written by the code
Statuses == {"pending_download", "downloading", "downloaded", "skipped", "failed"}

\* the mapped columns of Artifact the pipeline writes
Fields == {"status", "retry_count", "max_retries", "sha256", "local_path", "error_message"}

\* utils.sha256_bytes: a digest, distinct for distinct contents
sha256_bytes(c) == <<"sha256", c>>

\* the combinations of exchange, ticker, fiscal year, fiscal period and filing
\* date a filing can have
Slots == 1..NArt

\* StorageService.construct_path for artifact_type 'html', from the filing of
\* the artifact: {exchange}/{ticker}/{year}/{ticker}_{year}_{period}_{date}.html
construct_path(a) == <<"html", fslot[a]>>

\* the URLs an <img src> resolves to: a directory and a file name
ImgUrls == (1..NDir) \X (1..NName)

\* the u-th URL, u in 0..Cardinality(ImgUrls)-1
UrlOf(u) == <<(u \div NName) + 1, (u % NName) + 1>>

\* HTML documents with <img> tags: one document for every sequence of
\* MaxImgs image references (a URL may occur more than once); the documents
\* of Contents have no <img> tag
ImgDocs == (NContent + 1)..(NContent + (NDir * NName) ^ MaxImgs)

\* the bytes of the images the remote service can return
ImgContents ==
    (NContent + (NDir * NName) ^ MaxImgs + 1)..(NContent + (NDir * NName) ^ MaxImgs + NImgContent)

\* extract_image_urls: the src of every <img> tag, in document order
extract_image_urls(c) ==
    IF c \in Contents THEN <<>>
    ELSE [k \in 1..MaxImgs |->
            UrlOf(((c - NContent - 1) \div ((NDir * NName) ^ (k - 1))) % (NDir * NName))]

\* the enumeration that starts at 0 (a faulty variant)
enumerateFromZero(urls) == [k \in 1..Len(urls) |-> <<k - 1, urls[k]>>]
\* download_artifact, line 313: enumerate(image_urls, start=1)
enumerate(urls) == [k \in 1..Len(urls) |-> <<k, urls[k]>>]

\* download_and_record_image, line 150: filename = Path(url_path).name
image_filename(url) == url[2]

\* download_and_record_image, lines 115-116: the path of the HTML without
\* its extension, then _image-<seq>
image_path(html_path, k) == <<html_path, "image", k>>

\* every path the pipeline can write
Paths ==
    {<<"html", k>> : k \in Slots} \cup
    {image_path(<<"html", k>>, n) : k \in Slots, n \in 1..MaxImgs}

\* the row discovery commits: Artifact(..., local_path=html_path,
\* status='pending_download'), retry_count and max_retries by column default
NewArtifact(a) ==
    [status |-> "pending_download", retry_count |-> 0, max_retries |-> RetryCeiling,
     sha256 |-> <<>>, local_path |-> construct_path(a), error_message |-> <<>>]

\* a flush: UPDATE ... SET <modified columns> WHERE id = a
Flush(row, o, d) == [f \in Fields |-> IF f \in d THEN o[f] ELSE row[f]]

\* the attributes of the Artifact object as the task sees them: an expired
\* object is reloaded from the database on access
View(r, a) == IF expired[r][a] THEN db[a] ELSE obj[r][a]

\* the objects one session.commit() of the task (r, a) flushes: the
\* session of the task itself (thread_session of download_one), or the
\* session the caller passed to every task
CommitScope(r, a) == IF run[r].mode = "thread" THEN {a} ELSE Artifacts

\* session.commit() by the task (r, a) after it set its object to o with
\* modified attributes d: flush everything modified in the session and expire
\* every object. After the commit of line 222 the task reads its own object
\* again right away (artifact.url, line 227); after the last commit of the
\* task (final = TRUE) the object is not used by the task any more.
CommitWith(r, a, o, d, final) ==
    LET scope == CommitScope(r, a)
        oo(b) == IF b = a THEN o ELSE obj[r][b]
        dd(b) == IF b = a THEN d ELSE dirty[r][b]
        newdb == [b \in Artifacts |->
                    IF b \in scope THEN Flush(db[b], oo(b), dd(b)) ELSE db[b]]
    IN  /\ db' = newdb
        /\ images' = images \cup {i \in pend[r] : i.filing \in scope}
        /\ pend' = [pend EXCEPT ![r] = {i \in pend[r] : i.filing \notin scope}]
        /\ obj' = [obj EXCEPT ![r] = [b \in Artifacts |->
                    IF b = a /\ ~final THEN newdb[a]
                    ELSE IF b \in scope THEN NewArtifact(b) ELSE obj[r][b]]]
        /\ dirty' = [dirty EXCEPT ![r] = [b \in Artifacts |->
                    IF b \in scope THEN {} ELSE dirty[r][b]]]
        /\ expired' = [expired EXCEPT ![r] = [b \in Artifacts |->
                    IF b = a /\ ~final THEN FALSE
                    ELSE IF b \in scope THEN TRUE ELSE expired[r][b]]]

\* the pool counts only the tasks that have stored their bytes (a faulty variant)
ActiveStoredOnly(r) == {a \in Artifacts : tasks[r][a] = "stored"}
\* tasks of run r that hold a worker
Active(r) == {a \in Artifacts : tasks[r][a] \in {"claimed", "stored"}}

\* what the remote service and the storage may do
CanFail(a) == faults.mode = "any" \/ a \in faults.bad
CanSucceed(a) == faults.mode = "any" \/ a \notin faults.bad
StorageCanFail == faults.mode = "any"

IdleRun == [state |-> "idle", mode |-> "thread", workers |-> 1]

\* the row of an artifact that an earlier run downloaded with content c
Downloaded(a, c) ==
    [NewArtifact(a) EXCEPT !.status = "downloaded", !.sha256 = sha256_bytes(c)]

\* an artifact discovery has not created yet: no row
Absent(a) == [NewArtifact(a) EXCEPT !.status = "absent"]

\* the companies the job queries, in the order of the query
Companies == 1..NCo

\* parse_filings: the accession numbers the submissions feed of company c
\* lists. Every company has its own filings; the last accession number is
\* listed by every company (a filing with co-registrants).
FeedSet(c) == {a \in 1..(NArt - 1) : ((a - 1) % NCo) + 1 = c} \cup {NArt}
FeedLen(c) == Cardinality(FeedSet(c))
FeedEntry(c, k) == CHOOSE a \in FeedSet(c) : Cardinality({b \in FeedSet(c) : b < a}) = k - 1

\* the company whose call creates the Filing of accession number a
Owner(a) == CHOOSE c \in Companies : a \in FeedSet(c) /\ \A d \in Companies : a \in FeedSet(d) => c <= d

\* what a feed entry can be: an ordinary filing, one with an empty
\* primaryDocument, one whose fields make the loop body raise, one whose
\* INSERT the database rejects
FeedKinds == {"ok", "nodoc", "parse", "db"}

\* a session with nothing added and no failed flush
NoSession == [rows |-> {}, arts |-> {}, broken |-> FALSE]

\* the digits of the registrant ids and accession numbers
Digit(n) == <<"0", "1", "2", "3", "4", "5", "6", "7", "8", "9">>[n + 1]

\* Company.cik of company c: ten digits with leading zeros for the odd
\* companies, a number without leading zeros for the even ones
Cik(c) ==
    IF c % 2 = 1 THEN [i \in 1..10 |-> IF i = 10 THEN Digit(c) ELSE "0"]
    ELSE <<Digit(c), "0">>

\* cik.zfill(10)
zfill10(cik) == [i \in 1..(10 - Len(cik)) |-> "0"] \o cik

\* the accession number of entry a of the feed: filer id, year, sequence
\* number, separated by dashes; the company files for itself
accession_number(a) == zfill10(Cik(Owner(a))) \o <<"-", "2", "3", "-", Digit(a)>>

\* primaryDocument of entry a of the feed
primary_document(a) == <<"doc", Digit(a), ".htm">>

\* cik.lstrip('0')
RECURSIVE lstrip0(_)
lstrip0(cik) == IF cik # <<>> /\ Head(cik) = "0" THEN lstrip0(Tail(cik)) ELSE cik

\* accession.replace('-', '')
NotDash(ch) == ch # "-"
accession_clean(acc) == SelectSeq(acc, NotDash)

\* accession.split('-')[0]
RECURSIVE split_first(_)
split_first(acc) ==
    IF acc = <<>> \/ Head(acc) = "-" THEN <<>> ELSE <<Head(acc)>> \o split_first(Tail(acc))

\* SECAPIClient.construct_document_url
construct_document_url(cik, accession, filename) ==
    <<"https://www.sec.gov", "/Archives/edgar/data/">> \o lstrip0(cik) \o <<"/">>
        \o accession_clean(accession) \o <<"/">> \o filename

\* ConcurrentBackfillJob.process_company: the url is formatted in place
concurrent_url(cik, accession, filename) ==
    <<"https://www.sec.gov", "/Archives/edgar/data/">> \o cik \o <<"/">>
        \o accession_clean(accession) \o <<"/">> \o filename

\* create_artifact_records of the foreign job: the registrant id is taken
\* from the accession number
foreign_url(accession, filename) ==
    <<"https://www.sec.gov", "/Archives/edgar/data/">> \o split_first(accession) \o <<"/">>
        \o accession_clean(accession) \o <<"/">> \o filename

\* the url a discovery job of mode m gives the HTML artifact of entry a of
\* the feed of company c
html_url(m, c, a) ==
    IF m = "backfill"
    THEN construct_document_url(Cik(c), accession_number(a), primary_document(a))
    ELSE IF m = "foreign"
    THEN foreign_url(accession_number(a), primary_document(a))
    ELSE concurrent_url(Cik(c), accession_number(a), primary_document(a))

\* no discovery job is running; n jobs have run. mode: the job that is
\* running or ran last, prev: the one before it, ids:
\* artifact_ids_to_download of the company, dl: the run that downloads them
IdleJob(n) ==
    [state |-> "idle", mode |-> "none", prev |-> "none", job |-> n, co |-> 1, k |-> 1,
     ids |-> {}, dl |-> 0]

\* the longest SEC_USER_AGENT value of the model
MaxUA == 3

\* the characters of a SEC_USER_AGENT value
Chars == {"M", "@", "x"}

\* the values the environment (or .env) may hold for SEC_USER_AGENT
UserAgents == UNION {[1..n -> Chars] : n \in 0..MaxUA}

\* the default of the field sec_user_agent, 'MyCompany legal@example.com'
Placeholder == <<"M", "@">>

\* a value with the operator's own name and address
Customized == <<"x", "@">>

\* '@' in v
HasAt(v) == \E i \in 1..Len(v) : v[i] = "@"

validate_user_agent_email_only(v) ==
    IF ~HasAt(v) THEN [state |-> "rejected", sec_user_agent |-> <<>>]
    ELSE [state |-> "ok", sec_user_agent |-> v]

\* the field validator of sec_user_agent: ValueError for the placeholder and
\* for a value without '@'
validate_user_agent(v) ==
    IF v = Placeholder THEN [state |-> "rejected", sec_user_agent |-> <<>>]
    ELSE IF ~HasAt(v) THEN [state |-> "rejected", sec_user_agent |-> <<>>]
    ELSE [state |-> "ok", sec_user_agent |-> v]

\* Settings(): the field is read from the environment, or takes its default
\* when the variable is absent; BaseSettings validates defaults too
Settings(env) ==
    validate_user_agent(IF env.present THEN env.value ELSE Placeholder)

\* the call sites that send a request to the remote service
RequestSites == {"_make_request", "download_file", "download_and_record_image",
                 "download_artifact"}

\* done: the artifacts an earlier run has downloaded (with content 1);
\* pending: the artifacts discovery has committed since; the others are not
\* discovered; fd: the submissions feed. Nothing is running.
DLRest(done, pending, fd, sl) ==
    /\ fslot = sl
    /\ storage = [p \in Paths |->
                    IF p \in {construct_path(a) : a \in done} THEN sha256_bytes(1) ELSE <<>>]
    /\ wrote = done
    /\ run = [r \in Runs |-> IdleRun]
    /\ tasks = [r \in Runs |-> [a \in Artifacts |-> "none"]]
    /\ obj = [r \in Runs |-> [a \in Artifacts |-> NewArtifact(a)]]
    /\ dirty = [r \in Runs |-> [a \in Artifacts |-> {}]]
    /\ expired = [r \in Runs |-> [a \in Artifacts |-> FALSE]]
    /\ sweep = {}
    /\ images = {}
    /\ pend = [r \in Runs |-> {}]
    /\ todo = [r \in Runs |-> [a \in Artifacts |-> <<>>]]
    /\ broken = [r \in Runs |-> [a \in Artifacts |-> FALSE]]
    /\ filings = {[acc |-> a, co |-> Owner(a)] : a \in done \cup pending}
    /\ dsn = NoSession
    /\ dpc = IdleJob(0)
    /\ feed = fd
    /\ dfail = {}
    /\ pipeline = [state |-> "idle", round |-> 0]
    /\ html_urls = [a \in Artifacts |->
                IF a \in done \cup pending THEN html_url("backfill", Owner(a), a) ELSE <<>>]

\* the same with the rows of the artifacts table: downloaded, pending or not
\* discovered
DLBase(done, pending, fd, sl) ==
    /\ DLRest(done, pending, fd, sl)
    /\ db = [a \in Artifacts |->
                IF a \in done THEN Downloaded(a, 1)
                ELSE IF a \in pending THEN NewArtifact(a) ELSE Absent(a)]

\* no call of the remote filing client is under way
NoCall == [state |-> "idle", attempt |-> 0, delay |-> 0, outcomes |-> <<>>, sleeps |-> <<>>]

\* an empty retry_queue table and no entry waiting in a session
NoQueue == [rows |-> {}, staged |-> [r \in Runs |-> {}], next |-> 0]

\* SafeDownloader has not been started
NoSafe == [state |-> "idle", total |-> 0, batch_size |-> 1, done |-> 0,
           configured |-> 0, delay_between_downloads |-> 0, rate_limited |-> 0,
           total_429_errors |-> 0, outcomes |-> <<>>]

\* no pure function has been called
NoCalc == [op |-> "none"]

\* the same with nothing else going on
DLSlots(done, pending, fd, sl) ==
    /\ DLBase(done, pending, fd, sl)
    /\ retry = NoCall
    /\ rq = NoQueue
    /\ safe = NoSafe
    /\ calc = NoCalc

\* the same where no two filings share company, fiscal year, fiscal period
\* and filing date
DLRows(done, pending, fd) == DLSlots(done, pending, fd, [a \in Artifacts |-> a])

\* the same in a process whose settings were constructed from a customized
\* SEC_USER_AGENT
DLInitWith(done, pending, fd) ==
    /\ DLRows(done, pending, fd)
    /\ app = [env |-> [present |-> TRUE, value |-> Customized],
              settings |-> Settings([present |-> TRUE, value |-> Customized]),
              headers |-> {}]

\* the same, with a feed of ordinary filings
DLInit(done, pending) == DLInitWith(done, pending, [a \in Artifacts |-> "ok"])

\* download_all_pending, lines 30-43 and 89-94 (and download_artifacts of
\* nasdaq_full_backfill): list the ids of the pending artifacts, one task each
ListPending(r, w) ==
    LET batch == {a \in Artifacts : db[a].status = "pending_download"}
    IN  /\ run[r].state = "idle"
        /\ batch # {}
        /\ run' = [run EXCEPT ![r] = [state |-> "running", mode |-> "thread", workers |-> w]]
        /\ tasks' = [tasks EXCEPT ![r] = [a \in Artifacts |->
                        IF a \in batch THEN "queued" ELSE "none"]]
        /\ UNCHANGED <<rlvars, sent, dbvars, obj, dirty, expired, sweep, faults, imvars, dsvars>>

\* IncrementalUpdateJob.download_pending_artifacts, lines 180-198: the
\* pending Artifact objects are loaded into the caller's session and every
\* worker gets that session
ListPendingShared(r, w) ==
    LET batch == {a \in Artifacts : db[a].status = "pending_download"}
    IN  /\ run[r].state = "idle"
        /\ batch # {}
        /\ run' = [run EXCEPT ![r] = [state |-> "running", mode |-> "shared", workers |-> w]]
        /\ tasks' = [tasks EXCEPT ![r] = [a \in Artifacts |->
                        IF a \in batch THEN "queued" ELSE "none"]]
        /\ obj' = [obj EXCEPT ![r] = [a \in Artifacts |->
                        IF a \in batch THEN db[a] ELSE obj[r][a]]]
        /\ expired' = [expired EXCEPT ![r] = [a \in Artifacts |->
                        IF a \in batch THEN FALSE ELSE expired[r][a]]]
        /\ UNCHANGED <<rlvars, sent, dbvars, dirty, sweep, faults, imvars, dsvars>>

\* IncrementalUpdateJob.retry_failed_artifacts, lines 229-245: the failed
\* artifacts under their ceiling are loaded and attempted one after another
ListRetry(r) ==
    LET batch == {a \in Artifacts :
                    db[a].status = "failed" /\ db[a].retry_count < db[a].max_retries}
    IN  /\ run[r].state = "idle"
        /\ batch # {}
        /\ run' = [run EXCEPT ![r] = [state |-> "running", mode |-> "retry", workers |-> 1]]
        /\ tasks' = [tasks EXCEPT ![r] = [a \in Artifacts |->
                        IF a \in batch THEN "queued" ELSE "none"]]
        /\ obj' = [obj EXCEPT ![r] = [a \in Artifacts |->
                        IF a \in batch THEN db[a] ELSE obj[r][a]]]
        /\ expired' = [expired EXCEPT ![r] = [a \in Artifacts |->
                        IF a \in batch THEN FALSE ELSE expired[r][a]]]
        /\ UNCHANGED <<rlvars, sent, dbvars, dirty, sweep, faults, imvars, dsvars>>

\* download_one, lines 54-64, then download_artifact, lines 220-222: load
\* the artifact by id (whatever its status), mark it downloading, commit
Claim(r, a) ==
    LET base == IF run[r].mode = "thread" THEN db[a] ELSE View(r, a)
        o == [base EXCEPT !.status = "downloading"]
        d == (IF run[r].mode = "thread" THEN {} ELSE dirty[r][a]) \cup {"status"}
    IN  /\ run[r].state = "running"
        /\ tasks[r][a] = "queued"
        /\ Cardinality(Active(r)) < run[r].workers
        /\ base.retry_count <= RetryCeiling
        /\ CommitWith(r, a, o, d, FALSE)
        /\ tasks' = [tasks EXCEPT ![r][a] = "claimed"]
        /\ UNCHANGED <<rlvars, sent, storage, wrote, run, sweep, faults, todo, broken, dsvars>>

\* the GET of download_artifact, lines 226-231: sent without a limiter
Get(a) == sent \cup {[at |-> now, lim |-> 0, n |-> 0]}

\* the except branch without its status assignment (a faulty variant)
\* def calculate_retry_delay(retry_count: int, base_delay: int = 60)
base_delay == 60
calculate_retry_delay_linear(retry_count) == base_delay * (retry_count + 1)
\* return base_delay * (2 ** retry_count)
calculate_retry_delay(retry_count) == base_delay * (2 ^ retry_count)

\* retry_failed_artifacts, lines 252-268, after download_artifact returned
\* False for the artifact a whose committed row is now row: if the row is
\* under its ceiling, the entry of the artifact is looked up and given the
\* new time, or a new entry is added to the session (entry = 0)
schedule(r, a, row) ==
    IF run[r].mode = "retry" /\ row.retry_count < row.max_retries
    THEN LET scheduled_time == now + calculate_retry_delay(row.retry_count)
             found == {e \in rq.rows : e.artifact_id = a}
         IN  [rq EXCEPT !.staged[r] = @ \cup
                {[artifact_id |-> a, scheduled_for |-> scheduled_time,
                  entry |-> IF found = {} THEN 0 ELSE (CHOOSE e \in found : TRUE).id]}]
    ELSE rq

FailedNoStatus(o) == [o EXCEPT !.retry_count = @ + 1, !.error_message = <<"error">>]
\* download_artifact, except branch, lines 362-377
Failed(o) ==
    [o EXCEPT !.status = "failed", !.retry_count = @ + 1, !.error_message = <<"error">>]

\* download_artifact, lines 226-232 raising (network error, HTTP status),
\* then the except branch and its commit
FetchFail(r, a) ==
    /\ tasks[r][a] = "claimed"
    /\ CanFail(a)
    /\ sent' = Get(a)
    /\ CommitWith(r, a, Failed(View(r, a)),
                  dirty[r][a] \cup {"status", "retry_count", "error_message"}, TRUE)
    /\ tasks' = [tasks EXCEPT ![r][a] = "done"]
    /\ rq' = schedule(r, a, Flush(db[a], Failed(View(r, a)),
                                  dirty[r][a] \cup {"status", "retry_count", "error_message"}))
    /\ UNCHANGED <<rlvars, storage, wrote, run, sweep, faults, todo, broken, dscore, retry, sidevars>>

\* the rows the duplicate query of lines 241-245 can return
Duplicates(a, h) ==
    {b \in Artifacts : b # a /\ db[b].sha256 = h /\ db[b].status = "downloaded"}

\* download_artifact, lines 226-288 without an exception: fetch, hash, look
\* for a duplicate, reuse its path or write the bytes; nothing is committed
FetchStore(r, a, c) ==
    LET h == sha256_bytes(c)
        v == [View(r, a) EXCEPT !.sha256 = h]
    IN  /\ tasks[r][a] = "claimed"
        /\ CanSucceed(a)
        /\ sent' = Get(a)
        /\ \/ \E b \in Duplicates(a, h) :
                /\ obj' = [obj EXCEPT ![r][a] =
                            [v EXCEPT !.local_path = db[b].local_path, !.status = "skipped"]]
                /\ dirty' = [dirty EXCEPT ![r][a] = @ \cup {"sha256", "local_path", "status"}]
                /\ UNCHANGED <<storage, wrote>>
           \/ /\ Duplicates(a, h) = {}
              /\ LET path == IF v.local_path = <<>> THEN construct_path(a) ELSE v.local_path
                 IN  /\ obj' = [obj EXCEPT ![r][a] =
                                [v EXCEPT !.local_path = path, !.status = "downloaded"]]
                     /\ dirty' = [dirty EXCEPT ![r][a] =
                                @ \cup {"sha256", "status"} \cup
                                (IF v.local_path = <<>> THEN {"local_path"} ELSE {})]
                     /\ storage' = [storage EXCEPT ![path] = h]
                     /\ wrote' = wrote \cup {a}
        /\ expired' = [expired EXCEPT ![r][a] = FALSE]
        /\ todo' = [todo EXCEPT ![r][a] = enumerate(extract_image_urls(c))]
        /\ tasks' = [tasks EXCEPT ![r][a] = "stored"]
        /\ UNCHANGED <<rlvars, db, run, sweep, faults, images, pend, broken, dsvars>>

\* download_artifact, lines 226-245 and 283-288 with save_artifact
\* returning False: the exception is raised after the hash was set
StoreFail(r, a, c) ==
    LET h == sha256_bytes(c)
        v == [View(r, a) EXCEPT !.sha256 = h]
    IN  /\ tasks[r][a] = "claimed"
        /\ CanSucceed(a)
        /\ StorageCanFail
        /\ Duplicates(a, h) = {}
        /\ sent' = Get(a)
        /\ CommitWith(r, a, Failed(v),
                      dirty[r][a] \cup {"sha256", "status", "retry_count", "error_message"}, TRUE)
        /\ tasks' = [tasks EXCEPT ![r][a] = "done"]
        /\ rq' = schedule(r, a, Flush(db[a], Failed(v),
                    dirty[r][a] \cup {"sha256", "status", "retry_count", "error_message"}))
        /\ UNCHANGED <<rlvars, storage, wrote, run, sweep, faults, todo, broken, dscore, retry, sidevars>>

\* download_artifact, lines 358-360: commit the outcome, return True
Finish(r, a) ==
    /\ tasks[r][a] = "stored"
    /\ todo[r][a] = <<>>
    /\ ~broken[r][a]
    /\ CommitWith(r, a, View(r, a), dirty[r][a], TRUE)
    /\ tasks' = [tasks EXCEPT ![r][a] = "done"]
    /\ UNCHANGED <<rlvars, sent, storage, wrote, run, sweep, faults, todo, broken, dsvars>>

(***************************************************************************)
(* Secondary discovery: the image loop of download_artifact.               *)
(***************************************************************************)
\* the image rows a query of the session of task (r, a) sees: the committed
\* ones and those the session itself has flushed
Visible(r, a) == images \cup {i \in pend[r] : i.filing \in CommitScope(r, a)}

ExistingImageElsewhere(r, a, url) == \E i \in Visible(r, a) : i.filing # a /\ i.url = url

\* download_and_record_image, lines 94-107: the query for an Artifact of the
\* filing with this url
ExistingImage(r, a, url) == \E i \in Visible(r, a) : i.filing = a /\ i.url = url

\* the task (r, a) is in the image loop with a usable session
InLoop(r, a) == tasks[r][a] = "stored" /\ todo[r][a] # <<>> /\ ~broken[r][a]

\* download_and_record_image, lines 95-107: an Artifact of the filing with
\* this URL exists, return None
ImageExists(r, a) ==
    LET url == Head(todo[r][a])[2]
    IN  /\ InLoop(r, a)
        /\ ExistingImage(r, a, url)
        /\ todo' = [todo EXCEPT ![r][a] = Tail(@)]
        /\ UNCHANGED <<rlvars, sent, dbvars, exvars, sweep, faults, images, pend, broken, dsvars>>

\* download_and_record_image, lines 120-129 raising, lines 194-201: the
\* error is logged, None is returned, no Artifact is created
ImageFetchFail(r, a) ==
    LET url == Head(todo[r][a])[2]
    IN  /\ InLoop(r, a)
        /\ ~ExistingImage(r, a, url)
        /\ CanFail(a)
        /\ sent' = Get(a)
        /\ todo' = [todo EXCEPT ![r][a] = Tail(@)]
        /\ UNCHANGED <<rlvars, dbvars, exvars, sweep, faults, images, pend, broken, dsvars>>

\* the rows the duplicate query of lines 135-139 can return
ImageDuplicates(r, a, h) ==
    {i \in Visible(r, a) : i.sha256 = h /\ i.status \in {"downloaded", "skipped"}}

\* session.add and session.flush of lines 180-181: the INSERT violates
\* uq_filing_filename when the filing has an Artifact with this file name
FlushFails(r, a, row) ==
    \E i \in Visible(r, a) : i.filing = row.filing /\ i.filename = row.filename

\* the flush of the new row: the row is pending in the session, or the
\* IntegrityError is caught (line 194) and leaves the session, whose
\* transaction was rolled back, unusable until session.rollback()
FlushImage(r, a, row) ==
    IF FlushFails(r, a, row)
    THEN /\ pend' = [pend EXCEPT ![r] = {i \in @ : i.filing \notin CommitScope(r, a)}]
         /\ broken' = [broken EXCEPT ![r][a] = TRUE]
    ELSE /\ pend' = [pend EXCEPT ![r] = @ \cup {row}]
         /\ UNCHANGED broken

\* download_and_record_image, lines 120-192: fetch the image, hash it,
\* reuse the path of a duplicate or write the bytes, insert the row
ImageStore(r, a, ic) ==
    LET k == Head(todo[r][a])[1]
        url == Head(todo[r][a])[2]
        h == sha256_bytes(ic)
        row == [filing |-> a, url |-> url, filename |-> image_filename(url), sha256 |-> h]
        path == image_path(View(r, a).local_path, k)
    IN  /\ InLoop(r, a)
        /\ ~ExistingImage(r, a, url)
        /\ CanSucceed(a)
        /\ sent' = Get(a)
        /\ todo' = [todo EXCEPT ![r][a] = Tail(@)]
        /\ \/ \E d \in ImageDuplicates(r, a, h) :
                /\ FlushImage(r, a, row @@ [status |-> "skipped", local_path |-> d.local_path])
                /\ UNCHANGED storage
           \/ /\ ImageDuplicates(r, a, h) = {}
              /\ storage' = [storage EXCEPT ![path] = h]
              /\ FlushImage(r, a, row @@ [status |-> "downloaded", local_path |-> path])
        /\ UNCHANGED <<rlvars, db, wrote, exvars, sweep, faults, images, dsvars>>

\* download_and_record_image, lines 163-166: save_artifact returns False,
\* the exception is caught at line 194, no Artifact is created
ImageStoreFail(r, a, ic) ==
    LET url == Head(todo[r][a])[2]
        h == sha256_bytes(ic)
    IN  /\ InLoop(r, a)
        /\ ~ExistingImage(r, a, url)
        /\ CanSucceed(a)
        /\ StorageCanFail
        /\ ImageDuplicates(r, a, h) = {}
        /\ sent' = Get(a)
        /\ todo' = [todo EXCEPT ![r][a] = Tail(@)]
        /\ UNCHANGED <<rlvars, dbvars, exvars, sweep, faults, images, pend, broken, dsvars>>

\* the next statement that uses the session after a failed flush (the
\* query of line 95, or the commit of line 358) raises; in the except
\* branch of download_artifact, lines 362-377, reading retry_count and the
\* commit raise again, so the exception leaves download_artifact. The caller
\* (download_one, lines 69-76) catches it and its session is rolled back
\* and closed: the row keeps the committed status of the claim.
SessionRaise(r, a) ==
    /\ tasks[r][a] = "stored"
    /\ broken[r][a]
    /\ tasks' = [tasks EXCEPT ![r][a] = "raised"]
    /\ obj' = [obj EXCEPT ![r][a] = NewArtifact(a)]
    /\ dirty' = [dirty EXCEPT ![r][a] = {}]
    /\ expired' = [expired EXCEPT ![r][a] = TRUE]
    /\ todo' = [todo EXCEPT ![r][a] = <<>>]
    /\ broken' = [broken EXCEPT ![r][a] = FALSE]
    /\ UNCHANGED <<rlvars, sent, dbvars, run, sweep, faults, images, pend, dsvars>>

\* the pool has drained (as_completed is exhausted): the run returns and
\* its sessions are closed
RunEnd(r) ==
    /\ run[r].state = "running"
    /\ \A a \in Artifacts : tasks[r][a] \in {"none", "done", "raised"}
    /\ rq.staged[r] = {}
    /\ run' = [run EXCEPT ![r] = IdleRun]
    /\ tasks' = [tasks EXCEPT ![r] = [a \in Artifacts |-> "none"]]
    /\ obj' = [obj EXCEPT ![r] = [a \in Artifacts |-> NewArtifact(a)]]
    /\ dirty' = [dirty EXCEPT ![r] = [a \in Artifacts |-> {}]]
    /\ expired' = [expired EXCEPT ![r] = [a \in Artifacts |-> FALSE]]
    /\ UNCHANGED <<rlvars, sent, dbvars, sweep, faults, imvars, dsvars>>

(***************************************************************************)
(* Requeue sweeps.                                                         *)
(***************************************************************************)
\* repair_failed_artifacts, lines 84-87: the eligibility filter
RepairEligible(row, max_retry) == row.status = "failed" /\ row.retry_count < max_retry

\* repair_failed_artifacts, lines 58-96: collect the eligible ids
RepairSelect(max_retry) ==
    LET ids == {a \in Artifacts : RepairEligible(db[a], max_retry)}
    IN  /\ sweep = {}
        /\ ids # {}
        /\ sweep' = ids
        /\ UNCHANGED <<rlvars, sent, dbvars, exvars, faults, imvars, dsvars>>

\* nasdaq_backfill_pipeline.requeue_retryable_failures, lines 65-73
RequeueSelect ==
    LET ids == {a \in Artifacts :
                    db[a].status = "failed" /\ db[a].retry_count < db[a].max_retries}
    IN  /\ sweep = {}
        /\ ids # {}
        /\ sweep' = ids
        /\ UNCHANGED <<rlvars, sent, dbvars, exvars, faults, imvars, dsvars>>

\* what a requeue writes: {Artifact.status: 'pending_download'}
Requeued(row) == [row EXCEPT !.status = "pending_download"]

\* repair_failed_artifacts, lines 100-110, and requeue_retryable_failures,
\* lines 75-81: UPDATE the selected ids, commit
SweepUpdate ==
    /\ sweep # {}
    /\ db' = [a \in Artifacts |-> IF a \in sweep THEN Requeued(db[a]) ELSE db[a]]
    /\ sweep' = {}
    /\ UNCHANGED <<rlvars, sent, storage, wrote, exvars, faults, imvars, dsvars>>

RLInit ==
    /\ now = min_interval
    /\ last_request_time = [l \in Limiters |-> 0]
    /\ request_count = [l \in Limiters |-> 0]
    /\ lock = [l \in Limiters |-> 0]
    /\ tpc = [t \in Threads |-> "idle"]
    /\ wakeAt = [t \in Threads |-> 0]
    /\ sent = {}

\* time passes
Tick ==
    /\ now < MaxTime
    /\ now' = now + 1
    /\ UNCHANGED <<last_request_time, request_count, lock, tpc, wakeAt, sent, dlvars>>

\* wait(), lines 42-49: take the lock, read the clock, decide the sleep
WaitEnter(t) ==
    LET l == ClientOf(t)
        elapsed == now - last_request_time[l]
    IN  /\ tpc[t] = "idle"
        /\ lock[l] = 0
        /\ lock' = [lock EXCEPT ![l] = t]
        /\ tpc' = [tpc EXCEPT ![t] = "inwait"]
        /\ wakeAt' = [wakeAt EXCEPT ![t] =
                        IF NeedsSleep(elapsed) THEN now + SleepTime(elapsed) ELSE now]
        /\ UNCHANGED <<now, last_request_time, request_count, sent, dlvars>>

\* wait(), lines 51-55, and the GET of _make_request that follows it:
\* stamp the permitted call, count it, release the lock, send
WaitExit(t) ==
    LET l == ClientOf(t)
    IN  /\ tpc[t] = "inwait"
        /\ now >= wakeAt[t]
        /\ last_request_time' = [last_request_time EXCEPT ![l] = now]
        /\ request_count' = [request_count EXCEPT ![l] = @ + 1]
        /\ lock' = [lock EXCEPT ![l] = 0]
        /\ tpc' = [tpc EXCEPT ![t] = "idle"]
        /\ sent' = sent \cup {[at |-> now, lim |-> l, n |-> request_count[l] + 1]}
        /\ UNCHANGED <<now, wakeAt, dlvars>>

\* the requests that went out without a limiter
Direct == {r \in sent : r.lim = 0}

\* download_artifact / download_and_record_image: httpx.get is called
\* directly, no limiter is consulted (limiter 0 in the log)
DirectGet ==
    /\ Cardinality(Direct) < MaxDirect
    /\ sent' = sent \cup {[at |-> now, lim |-> 0, n |-> Cardinality(Direct) + 1]}
    /\ UNCHANGED <<rlvars, dlvars>>

RLNext ==
    \/ Tick
    \/ \E t \in Threads : WaitEnter(t)
    \/ \E t \in Threads : WaitExit(t)
    \/ DirectGet

\* the limiter scenario: callers of _make_request and ungated GETs
InitRL == RLInit /\ DLInit({}, Artifacts) /\ faults = [mode |-> "any", bad |-> {}]

SpecRL == InitRL /\ [][RLNext]_vars

\* max_retry arguments of repair_failed_artifacts: the default
\* (settings.artifact_retry_max, equal to the column default) and the
\* values --max-retry can give around it
RetryArgs == 1..(RetryCeiling + 1)

DLNext ==
    \/ \E r \in Runs : ListPending(r, Workers)
    \/ \E r \in Runs : ListRetry(r)
    \/ \E r \in Runs, a \in Artifacts : Claim(r, a)
    \/ \E r \in Runs, a \in Artifacts : FetchFail(r, a)
    \/ \E r \in Runs, a \in Artifacts, c \in Contents : FetchStore(r, a, c)
    \/ \E r \in Runs, a \in Artifacts, c \in Contents : StoreFail(r, a, c)
    \/ \E r \in Runs, a \in Artifacts : Finish(r, a)
    \/ \E r \in Runs : RunEnd(r)
    \/ \E m \in RetryArgs : RepairSelect(m)
    \/ RequeueSelect
    \/ SweepUpdate

\* executor runs, the retry of the incremental job and the requeue sweeps,
\* in any interleaving, with any fetch or storage failure
\* the last artifact was downloaded by an earlier run, the first is pending
InitDL == RLInit /\ DLInit({NArt}, {1}) /\ faults = [mode |-> "any", bad |-> {}]

SpecDL == InitDL /\ [][DLNext]_vars

BatchNext ==
    \/ \E w \in 1..Workers : ListPending(1, w)
    \/ \E a \in Artifacts : Claim(1, a)
    \/ \E a \in Artifacts : FetchFail(1, a)
    \/ \E a \in Artifacts, c \in Contents : FetchStore(1, a, c)
    \/ \E a \in Artifacts : Finish(1, a)
    \/ RunEnd(1)

\* one run of download_all_pending over a batch in which the fetch of
\* exactly one artifact is instrumented to fail and nothing else fails
InitBatch ==
    /\ RLInit /\ DLInit({}, Artifacts)
    /\ faults \in {[mode |-> "plan", bad |-> {a}] : a \in Artifacts}

SpecBatch == InitBatch /\ [][BatchNext]_vars

IncNext ==
    \/ \E w \in 1..Workers : ListPendingShared(1, w)
    \/ ListRetry(1)
    \/ \E a \in Artifacts : Claim(1, a)
    \/ \E a \in Artifacts : FetchFail(1, a)
    \/ \E a \in Artifacts, c \in Contents : FetchStore(1, a, c)
    \/ \E a \in Artifacts, c \in Contents : StoreFail(1, a, c)
    \/ \E a \in Artifacts : Finish(1, a)
    \/ RunEnd(1)

\* IncrementalUpdateJob.run: download_pending_artifacts, then
\* retry_failed_artifacts, on the session of the job
InitInc ==
    /\ RLInit /\ DLInit({NArt}, Artifacts \ {NArt})
    /\ faults = [mode |-> "any", bad |-> {}]

SpecInc == InitInc /\ [][IncNext]_vars

ImgNext ==
    \/ \E w \in 1..Workers : ListPending(1, w)
    \/ \E a \in Artifacts : Claim(1, a)
    \/ \E a \in Artifacts : FetchFail(1, a)
    \/ \E a \in Artifacts, c \in Contents \cup ImgDocs : FetchStore(1, a, c)
    \/ \E a \in Artifacts, c \in Contents \cup ImgDocs : StoreFail(1, a, c)
    \/ \E a \in Artifacts : ImageExists(1, a)
    \/ \E a \in Artifacts : ImageFetchFail(1, a)
    \/ \E a \in Artifacts, ic \in ImgContents : ImageStore(1, a, ic)
    \/ \E a \in Artifacts, ic \in ImgContents : ImageStoreFail(1, a, ic)
    \/ \E a \in Artifacts : SessionRaise(1, a)
    \/ \E a \in Artifacts : Finish(1, a)
    \/ RunEnd(1)

\* one run of download_all_pending over documents with and without images
InitImg ==
    /\ RLInit /\ DLInit({}, {1, 2})
    /\ faults = [mode |-> "any", bad |-> {}]

SpecImg == InitImg /\ [][ImgNext]_vars

(***************************************************************************)
(* Properties.                                                             *)
(***************************************************************************)
\* the requests permitted by limiter l
Permitted(l) == {r \in sent : r.lim = l}

\* requests of limiter l permitted inside the closed window [w, w + Second]
InWindow(l, w) == {r \in Permitted(l) : r.at >= w /\ r.at <= w + Second}

\* C1: for one limiter, any two permitted calls are at least min_interval
\* apart, N permitted calls span at least (N-1) intervals, and no window of
\* one second holds more than Rate + 1 of them.
C1_RateCompliance ==
    \A l \in Limiters :
        /\ \A r, q \in Permitted(l) :
            r # q => (r.at - q.at >= min_interval \/ q.at - r.at >= min_interval)
        /\ \A r, q \in Permitted(l) :
            r.n < q.n => q.at - r.at >= (q.n - r.n) * min_interval
        /\ \A w \in 0..MaxTime : Cardinality(InWindow(l, w)) <= Rate + 1

\* a thread of client 1 was permitted exactly one interval after another
\* call of the same client, and the next caller is asleep under the lock
C1_Witness ==
    \E r, q \in Permitted(1) :
        /\ q.n = r.n + 1
        /\ q.at = r.at + min_interval
        /\ \E t \in Threads : tpc[t] = "inwait" /\ ClientOf(t) = 1 /\ wakeAt[t] > now

\* C2: every GET that was sent (document fetches of download_artifact
\* included) was permitted by a rate limiter.
C2_FetchesGated == \A q \in sent : q.lim # 0

\* C3: any two requests sent by the process, through whatever client, are at
\* least min_interval apart.
C3_GlobalGate ==
    \A r, q \in sent :
        r # q => (r.at - q.at >= min_interval \/ q.at - r.at >= min_interval)

\* the runs whose task for artifact a is between its claim and its commit
Processing(a) == {r \in Runs : tasks[r][a] \in {"claimed", "stored"}}

\* C4: no artifact is processed by two tasks at the same time.
C4_AtomicClaim == \A a \in Artifacts : Cardinality(Processing(a)) <= 1

\* the artifacts in a terminal success state whose hash is h
Holders(h) ==
    {a \in Artifacts : db[a].status \in {"downloaded", "skipped"} /\ db[a].sha256 = h}

\* C5: the artifacts that ended successfully with byte-identical content
\* share one local path, and exactly one of them wrote the bytes (it is
\* downloaded, the others are skipped).
C5_DedupCorrect ==
    \A c \in Contents :
        LET H == Holders(sha256_bytes(c))
        IN  H # {} =>
              /\ \A a, b \in H : db[a].local_path = db[b].local_path
              /\ Cardinality({a \in H : db[a].status = "downloaded"}) = 1

\* C6: retry_count never exceeds the retry ceiling.
C6_RetryBound == \A a \in Artifacts : db[a].retry_count <= db[a].max_retries

\* C7: a failed artifact whose retry_count equals its ceiling stays failed
\* with the same retry_count.
C7_TerminalFailed ==
    [][\A a \in Artifacts :
        (db[a].status = "failed" /\ db[a].retry_count = db[a].max_retries)
            => (db'[a].status = "failed" /\ db'[a].retry_count = db[a].retry_count)]_vars

\* the step is the update of a requeue sweep
IsSweepStep == sweep # {} /\ sweep' = {}

\* the step is the failure handler of a download attempt on artifact a
IsFailureStep(a) == \E r \in Runs : tasks[r][a] = "claimed" /\ tasks'[r][a] = "done"

\* C8: a requeue writes the status only; retry_count changes only in the
\* failure handler of an attempt, and every failed attempt adds exactly 1.
C8_RequeueFrame ==
    [][\A a \in Artifacts :
        /\ IsSweepStep => db'[a] = [db[a] EXCEPT !.status = db'[a].status]
        /\ db'[a].retry_count # db[a].retry_count => IsFailureStep(a)
        /\ IsFailureStep(a) => db'[a].retry_count = db[a].retry_count + 1]_vars

\* the run has processed its whole batch
BatchDone(r) == run[r].state = "running" /\ \A a \in Artifacts : tasks[r][a] = "done"

C10_NoSharedTransaction ==
    [][\A a \in Artifacts :
        db'[a] # db[a] => \E r \in Runs : tasks'[r][a] # tasks[r][a]]_vars

\* C11: a call of download_artifact that got past its claim ends normally,
\* never by an exception, and leaves the artifact downloaded, skipped or
\* failed, never downloading; when an exception ended the attempt (the task
\* did not reach its stored outcome) the artifact is failed, its retry_count
\* one higher and its error message recorded.
C11_ExceptionsBecomeOutcomes ==
    [][\A r \in Runs, a \in Artifacts :
        (tasks[r][a] \in {"claimed", "stored"} /\ tasks'[r][a] \notin {"claimed", "stored"})
            => /\ tasks'[r][a] = "done"
               /\ db'[a].status \in {"downloaded", "skipped", "failed"}
               /\ tasks[r][a] = "claimed" =>
                    /\ db'[a].status = "failed"
                    /\ db'[a].retry_count = db[a].retry_count + 1
                    /\ db'[a].error_message # <<>>]_vars

\* C14: every artifact row, image rows included, is created with status
\* pending, and a pending artifact changes status only in the claim of an
\* executor task.
C14_CreatedPending ==
    [][/\ \A r \in Runs : \A i \in pend'[r] \ pend[r] : i.status = "pending_download"
       /\ \A a \in Artifacts :
            /\ (db[a].status = "absent" /\ db'[a].status # "absent")
                    => db'[a].status = "pending_download"
            /\ (db[a].status = "pending_download" /\ db'[a].status # "pending_download")
                    => /\ db'[a].status = "downloading"
                       /\ \E r \in Runs : tasks[r][a] = "queued" /\ tasks'[r][a] = "claimed"]_vars

\* the transitions of the artifact state machine
Transitions ==
    {<<"pending_download", "downloading">>, <<"downloading", "downloaded">>,
     <<"downloading", "skipped">>, <<"downloading", "failed">>,
     <<"failed", "pending_download">>}

\* C12: the status of every artifact is one of the five statuses, and every
\* status change is one of the five transitions of the state machine.
C12_StateMachine ==
    [][\A a \in Artifacts :
        db[a].status # "absent" =>
            /\ db[a].status \in Statuses
            /\ db'[a].status \in Statuses
            /\ db'[a].status # db[a].status
                    => <<db[a].status, db'[a].status>> \in Transitions]_vars

\* C13: an artifact that is downloaded or skipped keeps its status.
C13_SuccessTerminal ==
    [][\A a \in Artifacts :
        db[a].status \in {"downloaded", "skipped"} => db'[a].status = db[a].status]_vars

\* ---------------------------------------------------------------------
\* Discovery: BackfillJob.run / process_company_filings,
\* ForeignBackfillJob._process_companies, ConcurrentBackfillJob.process_company

\* what a discovery step leaves alone
runvars == <<rlvars, sent, storage, wrote, exvars, sweep, faults, imvars, pipeline, app, fslot,
             auxvars>>

execvars == <<runvars, html_urls>>

\* the job modes: the three discovery jobs
JobModes == {"backfill", "foreign", "concurrent"}

\* ConcurrentBackfillJob, with download_as_discover (the default) or without
Concurrent == dpc.mode \in {"concurrent", "concurrent_download"}

\* BackfillJob and ForeignBackfillJob pass one session to every company;
\* ConcurrentBackfillJob opens a session per company (with get_db_session())
SharedSession == dpc.mode \in {"backfill", "foreign"}

\* a query or an attribute load on a session whose flush failed and that was
\* not rolled back raises
Unusable == SharedSession /\ dsn.broken

\* the existence check that sees only the rows of the session (a faulty variant)
ExistingInSessionOnly(a) == a \in {x.acc : x \in dsn.rows}
\* session.query(Filing).filter(Filing.accession_number == ...).first():
\* the committed rows and the rows the session has flushed
Existing(a) == a \in {f.acc : f \in filings} \cup {x.acc : x \in dsn.rows}

\* the INSERT of the Filing is rejected: a value the schema does not take,
\* or accession_number is already there (unique=True)
Rejected(a) == feed[a] = "db" \/ a \in {f.acc : f \in filings}

\* the job position after the company
AfterCompany ==
    IF dpc.co < NCo
    THEN [dpc EXCEPT !.state = "fetch", !.co = dpc.co + 1, !.k = 1, !.ids = {}, !.dl = 0]
    ELSE [dpc EXCEPT !.state = "final", !.ids = {}, !.dl = 0]

\* the except branch of the company: log and go on. Only the session of
\* ConcurrentBackfillJob is rolled back (get_db_session); s: the shared
\* session as the raise left it
CompanyExcept(fetchFailed, s) ==
    /\ dfail' = dfail \cup {[job |-> dpc.job, co |-> dpc.co, fetch |-> fetchFailed]}
    /\ dsn' = IF SharedSession THEN s ELSE NoSession
    /\ dpc' = AfterCompany
    /\ UNCHANGED <<filings, db, feed>>

\* session.commit(): the rows of the session become committed rows
CommitSession ==
    /\ filings' = filings \cup {[acc |-> x.acc, co |-> x.call[2]] : x \in dsn.rows}
    /\ db' = [a \in Artifacts |-> IF a \in dsn.arts THEN NewArtifact(a) ELSE db[a]]

\* run(): a job starts on a fresh session
JobStart(m) ==
    /\ dpc.state = "idle" /\ dpc.job < MaxJobs
    /\ dpc' = [state |-> "fetch", mode |-> m, prev |-> dpc.mode,
                job |-> dpc.job + 1, co |-> 1, k |-> 1, ids |-> {}, dl |-> 0]
    /\ dsn' = NoSession
    /\ UNCHANGED <<filings, db, feed, dfail, execvars>>

\* fetch_company_submissions and parse_filings return the feed
CompanyFetch ==
    /\ dpc.state = "fetch" /\ ~Unusable
    /\ dpc' = [dpc EXCEPT !.state = "loop"]
    /\ UNCHANGED <<filings, db, dsn, feed, dfail, execvars>>

\* fetch_company_submissions raises (network, HTTP status)
CompanyFetchFail ==
    /\ dpc.state = "fetch" /\ ~Unusable
    /\ CompanyExcept(TRUE, dsn)
    /\ UNCHANGED execvars

\* the first use of the shared session after a failed flush raises
CompanySessionFail ==
    /\ dpc.state = "fetch" /\ Unusable
    /\ CompanyExcept(FALSE, dsn)
    /\ UNCHANGED execvars

\* the filing is already there: continue
FilingSkip ==
    LET a == FeedEntry(dpc.co, dpc.k)
    IN  /\ dpc.state = "loop" /\ dpc.k <= FeedLen(dpc.co)
        /\ Existing(a)
        /\ dpc' = [dpc EXCEPT !.k = dpc.k + 1]
        /\ UNCHANGED <<filings, db, dsn, feed, dfail, execvars>>

\* the loop body raises before the Filing is added (determine_fiscal_period
\* on a malformed report date, report_date.year on a string)
FilingRaise ==
    LET a == FeedEntry(dpc.co, dpc.k)
    IN  /\ dpc.state = "loop" /\ dpc.k <= FeedLen(dpc.co)
        /\ ~Existing(a) /\ feed[a] = "parse"
        /\ CompanyExcept(FALSE, dsn)
        /\ UNCHANGED execvars

\* session.add(filing); session.flush() raises: the transaction is rolled
\* back, the rows flushed before are gone, the session needs a rollback()
FilingRejected ==
    LET a == FeedEntry(dpc.co, dpc.k)
    IN  /\ dpc.state = "loop" /\ dpc.k <= FeedLen(dpc.co)
        /\ ~Existing(a) /\ feed[a] # "parse" /\ Rejected(a)
        /\ CompanyExcept(FALSE, [rows |-> {}, arts |-> {}, broken |-> TRUE])
        /\ UNCHANGED execvars

\* session.add(filing); session.flush(); session.add(artifact).
\* ConcurrentBackfillJob adds the artifact only if primary_doc is not empty,
\* and appends its id to artifact_ids_to_download
FilingAdd ==
    LET a == FeedEntry(dpc.co, dpc.k)
        withArtifact == ~(Concurrent /\ feed[a] = "nodoc")
    IN  /\ dpc.state = "loop" /\ dpc.k <= FeedLen(dpc.co)
        /\ ~Existing(a) /\ feed[a] # "parse" /\ ~Rejected(a)
        /\ dsn' = [dsn EXCEPT !.rows = @ \cup {[acc |-> a, call |-> <<dpc.job, dpc.co>>]},
                              !.arts = IF withArtifact THEN @ \cup {a} ELSE @]
        /\ dpc' = [dpc EXCEPT !.k = dpc.k + 1,
                              !.ids = IF Concurrent /\ withArtifact THEN @ \cup {a} ELSE @]
        /\ html_urls' = IF withArtifact THEN [html_urls EXCEPT ![a] = html_url(dpc.mode, dpc.co, a)]
                   ELSE html_urls
        /\ UNCHANGED <<filings, db, feed, dfail, runvars>>

\* the end of the loop over the filings: session.commit() in BackfillJob and
\* ConcurrentBackfillJob, in ForeignBackfillJob only if i % 10 == 0
CompanyCommit ==
    /\ dpc.state = "loop" /\ dpc.k > FeedLen(dpc.co)
    /\ ~(dpc.mode = "concurrent_download" /\ dpc.ids # {})
    /\ IF dpc.mode = "foreign" /\ dpc.co % CheckpointEvery # 0
       THEN UNCHANGED <<filings, db, dsn>>
       ELSE CommitSession /\ dsn' = NoSession
    /\ dpc' = AfterCompany
    /\ UNCHANGED <<feed, dfail, execvars>>

\* ConcurrentBackfillJob with download_as_discover: the with-block of the
\* session ends (commit), artifact_ids_to_download is not empty
CompanyCommitIds ==
    /\ dpc.state = "loop" /\ dpc.k > FeedLen(dpc.co)
    /\ dpc.mode = "concurrent_download" /\ dpc.ids # {}
    /\ CommitSession /\ dsn' = NoSession
    /\ dpc' = [dpc EXCEPT !.state = "download"]
    /\ UNCHANGED <<feed, dfail, execvars>>

\* the download begins while the session is still open (a faulty variant)
ReadyToDownloadEarly == dpc.state = "loop" /\ dpc.mode = "concurrent_download" /\ dpc.ids # {}
\* the call of download_artifacts comes after the with-block of the session
ReadyToDownload == dpc.state = "download"

\* await self.download_artifacts(artifact_ids_to_download): one task per id
\* under a semaphore, a session per task
DownloadStart(r) ==
    /\ ReadyToDownload
    /\ run[r].state = "idle"
    /\ run' = [run EXCEPT ![r] = [state |-> "running", mode |-> "thread", workers |-> Workers]]
    /\ tasks' = [tasks EXCEPT ![r] = [a \in Artifacts |->
                    IF a \in dpc.ids THEN "queued" ELSE "none"]]
    /\ dpc' = [dpc EXCEPT !.state = "await", !.dl = r]
    /\ UNCHANGED <<rlvars, sent, dbvars, obj, dirty, expired, sweep, faults, imvars,
                   filings, dsn, feed, dfail, pipeline, app, html_urls, fslot, auxvars>>

\* download_one of download_artifacts: the artifact is not pending: return
SkipNotPending(r, a) ==
    /\ run[r].state = "running"
    /\ tasks[r][a] = "queued"
    /\ db[a].status # "pending_download"
    /\ tasks' = [tasks EXCEPT ![r][a] = "done"]
    /\ UNCHANGED <<rlvars, sent, dbvars, run, obj, dirty, expired, sweep, faults, imvars, dsvars>>

\* download_one of download_artifacts: the artifact is pending:
\* download_artifact marks it downloading and commits
ClaimIfPending(r, a) ==
    /\ db[a].status = "pending_download"
    /\ Claim(r, a)

\* asyncio.gather returns: the company is done
DownloadsDone ==
    /\ dpc.state = "await"
    /\ run[dpc.dl].state = "idle"
    /\ dpc' = AfterCompany
    /\ UNCHANGED <<filings, db, dsn, feed, dfail, execvars>>

\* after the last company: the final session.commit() of the shared session
\* (it raises on a session that needs a rollback, and get_db_session rolls
\* back); the job is over
JobFinal ==
    /\ dpc.state = "final"
    /\ IF SharedSession /\ ~dsn.broken THEN CommitSession ELSE UNCHANGED <<filings, db>>
    /\ dsn' = NoSession
    /\ dpc' = [dpc EXCEPT !.state = "idle", !.co = 1, !.k = 1]
    /\ UNCHANGED <<feed, dfail, execvars>>

DiscNext ==
    \/ \E m \in JobModes : JobStart(m)
    \/ CompanyFetch
    \/ CompanyFetchFail
    \/ CompanySessionFail
    \/ FilingSkip
    \/ FilingRaise
    \/ FilingRejected
    \/ FilingAdd
    \/ CompanyCommit
    \/ JobFinal

\* the feeds: at most MaxAbnormal entries are not ordinary filings
Feeds == {fd \in [Artifacts -> FeedKinds] : Cardinality({a \in Artifacts : fd[a] # "ok"}) <= MaxAbnormal}

\* an empty database, MaxJobs discovery jobs over the same feed
InitDisc ==
    /\ RLInit
    /\ \E fd \in Feeds : DLInitWith({}, {}, fd)
    /\ faults = [mode |-> "any", bad |-> {}]

SpecDisc == InitDisc /\ [][DiscNext]_vars

\* the run of the stand-alone executor and the run download_artifacts starts
ExecutorRun == 1
DiscoverRun == 2

\* one run of ConcurrentBackfillJob with download_as_discover
JobStartOnce == dpc.job = 0 /\ JobStart("concurrent_download")

DDNext ==
    \/ JobStartOnce
    \/ CompanyFetch
    \/ CompanyFetchFail
    \/ FilingSkip
    \/ FilingAdd
    \/ CompanyCommit
    \/ CompanyCommitIds
    \/ DownloadStart(DiscoverRun)
    \/ DownloadsDone
    \/ JobFinal
    \/ ListPending(ExecutorRun, Workers)
    \/ \E a \in Artifacts : Claim(ExecutorRun, a)
    \/ \E a \in Artifacts : ClaimIfPending(DiscoverRun, a)
    \/ \E a \in Artifacts : SkipNotPending(DiscoverRun, a)
    \/ \E r \in {ExecutorRun, DiscoverRun}, a \in Artifacts : FetchFail(r, a)
    \/ \E r \in {ExecutorRun, DiscoverRun}, a \in Artifacts, c \in Contents : FetchStore(r, a, c)
    \/ \E r \in {ExecutorRun, DiscoverRun}, a \in Artifacts : Finish(r, a)
    \/ \E r \in {ExecutorRun, DiscoverRun} : RunEnd(r)

\* one ConcurrentBackfillJob discovers and downloads while
\* download_all_pending runs at any time; the filings of an ordinary feed,
\* all but the first discovered and downloaded before
InitDD ==
    /\ RLInit
    /\ DLInit(Artifacts \ {1}, {})
    /\ faults = [mode |-> "any", bad |-> {}]

SpecDD == InitDD /\ [][DDNext]_vars

\* the accession identifier is unique among the committed filings
UniqueAccession == \A f, g \in filings : f.acc = g.acc => f = g

\* the second job is the first job again: same job, and the feed was
\* delivered to it as it was to the first job (no fetch failed)
SecondRun ==
    /\ dpc.job = 2 /\ dpc.state # "idle" /\ dpc.prev = dpc.mode
    /\ \A x \in dfail : ~x.fetch

\* re-discovery is a no-op: no row is committed, and no company fails on
\* its feed that did not fail in the first job
NoOpStep ==
    /\ filings' = filings /\ db' = db
    /\ \A x \in dfail' \ dfail : ~x.fetch => \E y \in dfail : y.job = 1 /\ y.co = x.co

\* C15: a second discovery job over the same feed commits no new Filing row
\* and no new Artifact row, and no two committed Filings ever share an
\* accession identifier
C15_IdempotentDiscovery == []UniqueAccession /\ [][SecondRun => NoOpStep]_vars

\* a second job of the same kind has ended after a first job that committed
\* the filings of an ordinary feed
C15_Witness ==
    /\ dpc.job = 2 /\ dpc.state = "idle" /\ dpc.prev = dpc.mode
    /\ dfail = {}
    /\ {f.acc : f \in filings} = Artifacts

\* the accession numbers of the committed filings
Committed == {f.acc : f \in filings}

\* the company call (job, company) ended in the except branch
CallFailed(call) == \E y \in dfail : y.job = call[1] /\ y.co = call[2]

\* C16: the rows one company call creates are committed as one unit: a
\* commit takes all the rows of the call or none, and it takes none of a
\* call that failed part-way
C16_AtomicCompany ==
    [][\A x \in dsn.rows :
         (x.acc \in Committed' \ Committed) =>
            /\ ~CallFailed(x.call)'
            /\ \A y \in dsn.rows : y.call = x.call => y.acc \in Committed']_vars

\* a discovery job has ended
JobDone == dpc.state = "idle" /\ dpc.job >= 1

\* nothing failed for company c in the job that ended: its feed was
\* fetched and none of its entries raises or is rejected
Healthy(c) ==
    /\ ~\E y \in dfail : y.job = dpc.job /\ y.co = c /\ y.fetch
    /\ \A a \in FeedSet(c) : feed[a] \notin {"parse", "db"}

\* C17: a failure while discovering one company does not abort the batch:
\* when the job ends, the filings of every company that did not fail itself
\* are committed
C17_BatchContinues ==
    JobDone => \A c \in Companies : Healthy(c) => FeedSet(c) \subseteq Committed

\* C18: every Filing discovery commits is committed together with its HTML
\* Artifact in status pending, also when the primary-document name of the
\* feed entry is empty
C18_FilingHasArtifact ==
    [][\A a \in Committed' \ Committed : db'[a].status = "pending_download"]_vars

\* the session of the discovery job holds the Filing or the Artifact of
\* accession number a and has not committed
Uncommitted(a) == a \in dsn.arts \cup {x.acc : x \in dsn.rows}

Crash(r) ==
    /\ run[r].state = "running"
    /\ run' = [run EXCEPT ![r] = IdleRun]
    /\ tasks' = [tasks EXCEPT ![r] = [a \in Artifacts |-> "none"]]
    /\ obj' = [obj EXCEPT ![r] = [a \in Artifacts |-> NewArtifact(a)]]
    /\ dirty' = [dirty EXCEPT ![r] = [a \in Artifacts |-> {}]]
    /\ expired' = [expired EXCEPT ![r] = [a \in Artifacts |-> FALSE]]
    /\ pend' = [pend EXCEPT ![r] = {}]
    /\ todo' = [todo EXCEPT ![r] = [a \in Artifacts |-> <<>>]]
    /\ broken' = [broken EXCEPT ![r] = [a \in Artifacts |-> FALSE]]
    /\ UNCHANGED <<rlvars, sent, dbvars, sweep, faults, images, dsvars>>

\* one step of the task of run 1 for artifact a after its claim
TaskStep(a) ==
    \/ FetchFail(1, a)
    \/ \E c \in Contents : FetchStore(1, a, c)
    \/ \E c \in Contents : StoreFail(1, a, c)
    \/ Finish(1, a)

\* a requeue sweep selects
SweepSelect == RequeueSelect \/ \E m \in RetryArgs : RepairSelect(m)

StaleNext ==
    \/ \E w \in 1..Workers : ListPending(1, w)
    \/ ListRetry(1)
    \/ \E a \in Artifacts : Claim(1, a)
    \/ \E a \in Artifacts : TaskStep(a)
    \/ RunEnd(1)
    \/ SweepSelect
    \/ SweepUpdate
    \/ Crash(1)

\* every start of the executor, every task and every sweep that can go on
\* does go on; only the kill is not scheduled
StaleFairness ==
    /\ WF_vars(\E w \in 1..Workers : ListPending(1, w))
    /\ WF_vars(ListRetry(1))
    /\ \A a \in Artifacts : WF_vars(Claim(1, a))
    /\ \A a \in Artifacts : WF_vars(TaskStep(a))
    /\ WF_vars(RunEnd(1))
    /\ WF_vars(SweepSelect)
    /\ WF_vars(SweepUpdate)

\* executor runs, retries and requeue sweeps one after the other, a run can
\* be killed at any point; two artifacts are pending
InitStale ==
    /\ RLInit /\ DLInit({NArt}, Artifacts \ {NArt})
    /\ faults = [mode |-> "any", bad |-> {}]

SpecStale == InitStale /\ [][StaleNext]_vars /\ StaleFairness

\* an artifact at rest: downloaded, skipped or failed
Settled(a) == db[a].status \in {"downloaded", "skipped", "failed"}

\* C20: no Artifact stays in downloading forever: also after an abrupt end
\* of the run that claimed it, a later run or sweep takes it up and it
\* reaches downloaded, skipped or failed
C20_StaleRecovered ==
    \A a \in Artifacts : [](db[a].status = "downloading" => <>Settled(a))

\* the artifacts a task of run r has claimed and not brought to an outcome
InFlight(r) == {a \in Artifacts : tasks[r][a] \in {"claimed", "stored"} /\ db[a].status = "downloading"}

C22_SameHashSamePath ==
    \A a, b \in Artifacts :
        (db[a].status # "absent" /\ db[b].status # "absent"
            /\ db[a].sha256 # <<>> /\ db[a].sha256 = db[b].sha256)
        => db[a].local_path = db[b].local_path

\* C23: the content hash of an Artifact, once computed, is never changed by
\* a later operation (requeue, re-attempt after a failure)
C23_HashImmutable ==
    [][\A a \in Artifacts : db[a].sha256 # <<>> => db'[a].sha256 = db[a].sha256]_vars

\* the image loop of task (r, a) has dealt with the reference at the head
ReferenceDone(r, a) == InLoop(r, a) /\ todo'[r][a] = Tail(todo[r][a])

\* C24: once Secondary Artifact Discovery has dealt with an image
\* reference of the document, an Artifact exists for (filing, resolved URL),
\* also when the fetch or the storage write of the image failed
C24_EveryReferenceRecorded ==
    [][\A r \in Runs, a \in Artifacts :
         ReferenceDone(r, a) =>
            \E i \in Visible(r, a)' : i.filing = a /\ i.url = Head(todo[r][a])[2]]_vars

\* ---------------------------------------------------------------------
\* Secondary discovery when every fetch and every storage write succeeds

ImgOkNext ==
    \/ \E w \in 1..Workers : ListPending(1, w)
    \/ \E a \in Artifacts : Claim(1, a)
    \/ \E a \in Artifacts, c \in Contents \cup ImgDocs : FetchStore(1, a, c)
    \/ \E a \in Artifacts : ImageExists(1, a)
    \/ \E a \in Artifacts, ic \in ImgContents : ImageStore(1, a, ic)
    \/ \E a \in Artifacts : SessionRaise(1, a)
    \/ \E a \in Artifacts : Finish(1, a)
    \/ RunEnd(1)

\* one run of download_all_pending over documents with and without images;
\* the remote service and the storage never fail
InitImgOk ==
    /\ RLInit /\ DLInit({}, {1, 2})
    /\ faults = [mode |-> "plan", bad |-> {}]

SpecImgOk == InitImgOk /\ [][ImgOkNext]_vars

\* the place in encounter order of the reference at the head of the loop
\* (a document with images has MaxImgs references)
Encounter(r, a) == MaxImgs - Len(todo[r][a]) + 1

\* the image rows the session of task (r, a) adds in this step
Created(r, a) == {i \in Visible(r, a)' : i \notin Visible(r, a) /\ i.filing = a}

C26_ParentOutcomeKept ==
    [][\A r \in Runs, a \in Artifacts :
         tasks[r][a] = "stored" =>
            /\ tasks'[r][a] \in {"stored", "done"}
            /\ tasks'[r][a] = "done" => db'[a].status \in {"downloaded", "skipped"}]_vars

(***************************************************************************)
(* run_pipeline: download rounds with a requeue of the retryable failures  *)
(***************************************************************************)

\* MAX_DOWNLOAD_ROUNDS: the cap on the download rounds
MAX_DOWNLOAD_ROUNDS == 10

\* pending_counts: the pending, the retryable failed and the terminally
\* failed artifacts
pending_counts ==
    [pending |-> Cardinality({a \in Artifacts : db[a].status = "pending_download"}),
     retryable_failed |-> Cardinality({a \in Artifacts :
            db[a].status = "failed" /\ db[a].retry_count < db[a].max_retries}),
     terminal_failed |-> Cardinality({a \in Artifacts :
            db[a].status = "failed" /\ db[a].retry_count >= db[a].max_retries})]

\* requeue_retryable_failures: every failed artifact under its ceiling goes
\* back to pending_download, in one session
requeue_retryable_failures ==
    [a \in Artifacts |->
        IF db[a].status = "failed" /\ db[a].retry_count < db[a].max_retries
        THEN Requeued(db[a]) ELSE db[a]]

\* run_pipeline enters its round loop (the discovery step has completed)
PipelineStart ==
    /\ pipeline.state = "idle"
    /\ run[1].state = "idle"
    /\ pipeline' = [state |-> "round", round |-> 1]
    /\ UNCHANGED <<rlvars, sent, dbvars, exvars, sweep, faults, imvars,
                   filings, dsn, dpc, feed, dfail, app, html_urls, fslot, auxvars>>

\* download_artifacts() of a round: the pending artifacts are listed and one
\* task per artifact is submitted to the thread pool; with nothing pending
\* it returns at once
PipelineDownload(w) ==
    LET batch == {a \in Artifacts : db[a].status = "pending_download"}
    IN  /\ pipeline.state = "round"
        /\ run[1].state = "idle"
        /\ IF batch = {}
           THEN /\ pipeline' = [pipeline EXCEPT !.state = "counts"]
                /\ UNCHANGED <<run, tasks>>
           ELSE /\ pipeline' = [pipeline EXCEPT !.state = "download"]
                /\ run' = [run EXCEPT ![1] = [state |-> "running", mode |-> "thread",
                                              workers |-> w]]
                /\ tasks' = [tasks EXCEPT ![1] = [a \in Artifacts |->
                                IF a \in batch THEN "queued" ELSE "none"]]
        /\ UNCHANGED <<rlvars, sent, dbvars, obj, dirty, expired, sweep, faults, imvars,
                       filings, dsn, dpc, feed, dfail, app, html_urls, fslot, auxvars>>

\* the rest of the round, after download_artifacts() returned: the
\* counts, the return when nothing is pending or retryable, the requeue, and
\* the next round or the round cap
PipelineCounts ==
    /\ \/ pipeline.state = "counts"
       \/ pipeline.state = "download" /\ run[1].state = "idle"
    /\ IF pending_counts.pending = 0 /\ pending_counts.retryable_failed = 0
       THEN /\ pipeline' = [pipeline EXCEPT !.state = "done"]
            /\ db' = db
       ELSE /\ db' = IF pending_counts.retryable_failed > 0
                     THEN requeue_retryable_failures ELSE db
            /\ pipeline' = IF pipeline.round < MAX_DOWNLOAD_ROUNDS
                           THEN [state |-> "round", round |-> pipeline.round + 1]
                           ELSE [pipeline EXCEPT !.state = "capped"]
    /\ UNCHANGED <<rlvars, sent, storage, wrote, exvars, sweep, faults, imvars,
                   filings, dsn, dpc, feed, dfail, app, html_urls, fslot, auxvars>>

PipelineNext ==
    \/ PipelineStart
    \/ \E w \in 1..Workers : PipelineDownload(w)
    \/ PipelineCounts
    \/ \E a \in Artifacts : Claim(1, a)
    \/ \E a \in Artifacts : FetchFail(1, a)
    \/ \E a \in Artifacts, c \in Contents \cup ImgDocs : FetchStore(1, a, c)
    \/ \E a \in Artifacts, c \in Contents \cup ImgDocs : StoreFail(1, a, c)
    \/ \E a \in Artifacts : ImageExists(1, a)
    \/ \E a \in Artifacts : ImageFetchFail(1, a)
    \/ \E a \in Artifacts, ic \in ImgContents : ImageStore(1, a, ic)
    \/ \E a \in Artifacts, ic \in ImgContents : ImageStoreFail(1, a, ic)
    \/ \E a \in Artifacts : SessionRaise(1, a)
    \/ \E a \in Artifacts : Finish(1, a)
    \/ RunEnd(1)

\* one pipeline over one pending document, with or without images
InitPipeline ==
    /\ RLInit /\ DLInit({}, {1})
    /\ faults = [mode |-> "any", bad |-> {}]

SpecPipeline == InitPipeline /\ [][PipelineNext]_vars

\* C27: when run_pipeline has left its round loop, by the return or by the
\* round cap, no Artifact is pending or retryable, and every Artifact is
\* downloaded, skipped or failed at its retry ceiling (the ceilings are at
\* most MAX_DOWNLOAD_ROUNDS)
C27_PipelineSettlesAll ==
    (RetryCeiling <= MAX_DOWNLOAD_ROUNDS /\ pipeline.state \in {"done", "capped"}) =>
        /\ pending_counts.pending = 0
        /\ pending_counts.retryable_failed = 0
        /\ \A a \in Artifacts : db[a].status # "absent" =>
              \/ db[a].status \in {"downloaded", "skipped"}
              \/ db[a].status = "failed" /\ db[a].retry_count >= db[a].max_retries

(***************************************************************************)
(* Settings and the client-identification header                           *)
(***************************************************************************)

\* settings = Settings(): the module-level instance, constructed when
\* config.settings is first imported
SettingsImport ==
    /\ app.settings.state = "unset"
    /\ app' = [app EXCEPT !.settings = Settings(app.env)]
    /\ UNCHANGED <<rlvars, sent, dbvars, exvars, sweep, faults, imvars,
                   filings, dsn, dpc, feed, dfail, pipeline, html_urls, fslot, auxvars>>

\* a GET of the remote filing client or of the downloader: the modules import
\* settings first, and every call passes User-Agent: settings.sec_user_agent
Request(site) ==
    /\ app.settings.state = "ok"
    /\ app' = [app EXCEPT !.headers = @ \cup
                    {[site |-> site, user_agent |-> app.settings.sec_user_agent]}]
    /\ UNCHANGED <<rlvars, sent, dbvars, exvars, sweep, faults, imvars,
                   filings, dsn, dpc, feed, dfail, pipeline, html_urls, fslot, auxvars>>

SettingsNext ==
    \/ SettingsImport
    \/ \E site \in RequestSites : Request(site)

\* a process starts with any value of SEC_USER_AGENT, or with none
InitSettings ==
    /\ RLInit /\ DLRows({}, {}, [a \in Artifacts |-> "ok"])
    /\ faults = [mode |-> "plan", bad |-> {}]
    /\ \E e \in {[present |-> FALSE, value |-> <<>>]}
                 \cup {[present |-> TRUE, value |-> v] : v \in UserAgents} :
          app = [env |-> e,
                 settings |-> [state |-> "unset", sec_user_agent |-> <<>>],
                 headers |-> {}]

SpecSettings == InitSettings /\ [][SettingsNext]_vars

\* C28: with SEC_USER_AGENT absent or equal to the placeholder, the
\* construction of Settings is rejected and no request is sent; every
\* request that is sent carries the configured value, never the placeholder
C28_PlaceholderRejected ==
    /\ (~app.env.present \/ app.env.value = Placeholder) =>
          /\ app.settings.state \in {"unset", "rejected"}
          /\ app.headers = {}
    /\ \A h \in app.headers :
          /\ h.user_agent # Placeholder
          /\ app.env.present /\ h.user_agent = app.env.value

\* Settings() has been constructed with no SEC_USER_AGENT in the environment
C28_Witness ==
    /\ ~app.env.present
    /\ app.settings.state = "rejected"

\* the committed artifacts other than a that are downloaded or skipped with
\* hash h
TerminalWithHash(a, h) ==
    {b \in Artifacts : b # a /\ db[b].sha256 = h /\ db[b].status \in {"downloaded", "skipped"}}

\* the task of run r has fetched the bytes of artifact a and has acquired
\* the document
Fetched(r, a) == tasks[r][a] = "claimed" /\ tasks'[r][a] = "stored"

\* C29: when the hash of the fetched bytes is the hash of an existing
\* downloaded or skipped Artifact, the fetching Artifact becomes skipped with
\* the path and hash of such an Artifact and storage is not written; the
\* same for an image and the image Artifacts
C29_DuplicateSkipped ==
    [][\A r \in Runs, a \in Artifacts :
         /\ (Fetched(r, a) /\ TerminalWithHash(a, View(r, a)'.sha256) # {}) =>
               /\ View(r, a)'.status = "skipped"
               /\ \E b \in TerminalWithHash(a, View(r, a)'.sha256) :
                     View(r, a)'.local_path = db[b].local_path
               /\ storage' = storage
         /\ \A i \in Created(r, a) :
               (ReferenceDone(r, a) /\ ImageDuplicates(r, a, i.sha256) # {}) =>
                  /\ i.status = "skipped"
                  /\ \E d \in ImageDuplicates(r, a, i.sha256) : i.local_path = d.local_path
                  /\ storage' = storage]_vars

\* C30: the url of every committed HTML artifact is
\* construct_document_url(registrant id of its company, accession number,
\* primary document), whichever discovery job created it
C30_UrlIsConstructed ==
    \A a \in Artifacts : db[a].status # "absent" =>
        \E f \in filings :
            /\ f.acc = a
            /\ html_urls[a] = construct_document_url(Cik(f.co), accession_number(a),
                                                primary_document(a))

(***************************************************************************)
(* Storage paths                                                           *)
(***************************************************************************)

\* the filings of a batch: two filings of one company may share fiscal year,
\* fiscal period and filing date; filings of different companies do not
\* share a ticker
FilingSlots == {sl \in [Artifacts -> Slots] :
                    \A a, b \in Artifacts : sl[a] = sl[b] => Owner(a) = Owner(b)}

\* one run of download_all_pending over the primary documents of any such
\* filings
InitPaths ==
    /\ RLInit
    /\ \E sl \in FilingSlots : DLSlots({}, Artifacts, [a \in Artifacts |-> "ok"], sl)
    /\ app = [env |-> [present |-> TRUE, value |-> Customized],
              settings |-> Settings([present |-> TRUE, value |-> Customized]),
              headers |-> {}]
    /\ faults = [mode |-> "any", bad |-> {}]

SpecPaths == InitPaths /\ [][BatchNext]_vars

\* C31: an Artifact that writes its fetched bytes to storage writes them to
\* a path that no other downloaded Artifact has written
C31_WriteOncePerPath ==
    [][\A r \in Runs, a \in Artifacts :
         (Fetched(r, a) /\ View(r, a)'.status = "downloaded") =>
            \A b \in Artifacts \ {a} :
                db[b].status = "downloaded" => db[b].local_path # View(r, a)'.local_path]_vars

(***************************************************************************)
(* A document that is downloaded again                                     *)
(***************************************************************************)

RerunNext ==
    \/ \E r \in Runs, w \in 1..Workers : ListPending(r, w)
    \/ \E r \in Runs, a \in Artifacts : Claim(r, a)
    \/ \E r \in Runs, a \in Artifacts, c \in Contents \cup ImgDocs : FetchStore(r, a, c)
    \/ \E r \in Runs, a \in Artifacts : ImageExists(r, a)
    \/ \E r \in Runs, a \in Artifacts, ic \in ImgContents : ImageStore(r, a, ic)
    \/ \E r \in Runs, a \in Artifacts : SessionRaise(r, a)
    \/ \E r \in Runs, a \in Artifacts : Finish(r, a)
    \/ \E r \in Runs : RunEnd(r)

\* executor runs that overlap, over one pending document: a run that listed
\* the document while it was pending downloads it again after another run
\* has committed it with its images
InitRerun ==
    /\ RLInit /\ DLInit({}, {1})
    /\ faults = [mode |-> "plan", bad |-> {}]

SpecRerun == InitRerun /\ [][RerunNext]_vars

\* C32: an iteration of the image loop for a (filing, url) that already has
\* an Artifact creates no Artifact, sends no request and writes nothing, so
\* the Artifacts of the filing are the same after it
C32_RecordedImageSkipped ==
    [][\A r \in Runs, a \in Artifacts :
         (/\ ReferenceDone(r, a)
          /\ \E i \in Visible(r, a) : i.filing = a /\ i.url = Head(todo[r][a])[2]) =>
            /\ Visible(r, a)' = Visible(r, a)
            /\ images' = images /\ pend' = pend
            /\ storage' = storage
            /\ sent' = sent
            /\ ~broken'[r][a]]_vars

\* a second run has gone through the image loop of a document that the first
\* run committed with its images, and its session holds no new Artifact
C32_Witness ==
    /\ db[1].status = "downloaded"
    /\ Cardinality({i \in images : i.filing = 1}) = MaxImgs
    /\ tasks[2][1] = "stored" /\ todo[2][1] = <<>> /\ ~broken[2][1]
    /\ View(2, 1).sha256 = db[1].sha256
    /\ pend[2] = {}

(***************************************************************************)
(* retry_with_backoff around fetch_company_submissions                     *)
(***************************************************************************)

\* the download and discovery state, which the calls below leave alone
pipevars == <<rlvars, sent, dbvars, exvars, sweep, faults, imvars,
              filings, dsn, dpc, feed, dfail, pipeline, app, html_urls, fslot>>

\* the pipeline at rest: nothing discovered, nothing running
Quiet ==
    /\ RLInit
    /\ DLBase({}, {}, [a \in Artifacts |-> "ok"], [a \in Artifacts |-> a])
    /\ app = [env |-> [present |-> TRUE, value |-> Customized],
              settings |-> Settings([present |-> TRUE, value |-> Customized]),
              headers |-> {}]
    /\ faults = [mode |-> "plan", bad |-> {}]

\* @retry_with_backoff(max_attempts=3, initial_delay=10.0, ...)
max_attempts == 3
initial_delay == 10
\* backoff_factor: float = 2.0
backoff_factor == 2

\* what one GET of _make_request followed by response.json() can end in: a
\* JSON body, an HTTP status that raise_for_status raises on, a timeout, a
\* connection error, or a body that is not JSON
Outcomes == {"ok", "404", "429", "500", "timeout", "connect", "badjson"}

\* the outcomes that raise an httpx.HTTPError: HTTPStatusError for the
\* statuses, TimeoutException and ConnectError (RequestError) for the others
HTTPErrors == {"404", "429", "500", "timeout", "connect"}

LastAttemptLate(attempt) == attempt = max_attempts + 1

\* if attempt == max_attempts
LastAttempt(attempt) == attempt = max_attempts

CaughtTransient(o) == o \in HTTPErrors \ {"404"}

\* except exceptions as e, with exceptions=(httpx.HTTPError,)
Caught(o) == o \in HTTPErrors

\* a caller calls fetch_company_submissions(cik): delay = initial_delay and
\* the loop starts
RetryCall ==
    /\ retry.state = "idle"
    /\ retry' = [state |-> "try", attempt |-> 1, delay |-> initial_delay,
                 outcomes |-> <<>>, sleeps |-> <<>>]
    /\ UNCHANGED <<pipevars, rq, sidevars>>

\* one attempt: func(*args, **kwargs) sends one request; the result is
\* returned, an exception that is not caught propagates, a caught one is
\* re-raised on the last attempt and leads to the sleep otherwise
RetryAttempt(o) ==
    /\ retry.state = "try"
    /\ retry' = [retry EXCEPT
            !.outcomes = Append(@, o),
            !.state = IF o = "ok" THEN "returned"
                      ELSE IF ~Caught(o) THEN "raised"
                      ELSE IF LastAttempt(retry.attempt) THEN "raised"
                      ELSE "sleep"]
    /\ UNCHANGED <<pipevars, rq, sidevars>>

\* time.sleep(delay); delay *= backoff_factor; the next iteration
RetrySleep ==
    /\ retry.state = "sleep"
    /\ retry' = [retry EXCEPT !.sleeps = Append(@, retry.delay),
                              !.delay = @ * backoff_factor,
                              !.attempt = @ + 1,
                              !.state = "try"]
    /\ UNCHANGED <<pipevars, rq, sidevars>>

RetryNext ==
    \/ RetryCall
    \/ \E o \in Outcomes : RetryAttempt(o)
    \/ RetrySleep

InitRetry == Quiet /\ retry = NoCall /\ rq = NoQueue /\ safe = NoSafe /\ calc = NoCalc

\* the thread that runs the call goes on: every request ends (the client
\* has a timeout) and every sleep ends
SpecRetry == InitRetry /\ [][RetryNext]_vars /\ WF_vars(RetryNext)

\* the call has ended
RetryEnded == retry.state \in {"returned", "raised"}

\* C33: a call of fetch_company_submissions sends at most 3 requests, every
\* request but the last has failed, it returns on the first success, it has
\* slept 10s and then 20s between the attempts, it raises only after a
\* failure (after the third one when the failures are HTTP errors), and it
\* always ends
C33_BoundedRetry ==
    /\ [](/\ Len(retry.outcomes) <= 3
          /\ \A i \in 1..(Len(retry.outcomes) - 1) : retry.outcomes[i] # "ok"
          /\ retry.state = "returned" =>
                retry.outcomes[Len(retry.outcomes)] = "ok"
          /\ retry.state = "raised" =>
                /\ retry.outcomes[Len(retry.outcomes)] # "ok"
                /\ (\A i \in 1..Len(retry.outcomes) : retry.outcomes[i] \in HTTPErrors)
                      => Len(retry.outcomes) = 3
          /\ Len(retry.sleeps) = Len(retry.outcomes) - (IF retry.state \in {"idle", "try"} THEN 0 ELSE 1)
          /\ \A i \in 1..Len(retry.sleeps) : retry.sleeps[i] = (IF i = 1 THEN 10 ELSE 20))
    /\ (retry.state = "try") ~> RetryEnded

\* the call raised after three failed requests and two sleeps
C33_Witness ==
    /\ retry.state = "raised"
    /\ Len(retry.outcomes) = 3
    /\ retry.sleeps = <<10, 20>>

\* C34: a 404 is not retried: the call fails after exactly one request
C34_NoRetryOn404 ==
    (Len(retry.outcomes) >= 1 /\ retry.outcomes[1] = "404") =>
        /\ retry.state = "raised"
        /\ Len(retry.outcomes) = 1


(***************************************************************************)
(* The retry queue of the continuous mode.                                 *)
(***************************************************************************)
\* max_retries = Column(Integer, default=3)
default_max_retries == 3

\* a commit of the session of retry_failed_artifacts (the commit of the next
\* download_artifact, or line 270) flushes the entries of the session:
\* RetryQueue.artifact_id is unique, so an INSERT for an artifact that has a
\* row raises IntegrityError, the transaction is rolled back and the job ends
RetryFlush(r) ==
    LET staged == rq.staged[r]
        inserts == {e \in staged : e.entry = 0}
        updates == staged \ inserts
        conflict == \E e \in inserts, row \in rq.rows : row.artifact_id = e.artifact_id
        kept == {row \in rq.rows : \A e \in updates : e.entry # row.id}
        updated == {[id |-> e.entry, artifact_id |-> e.artifact_id,
                     scheduled_for |-> e.scheduled_for] :
                        e \in {u \in updates : \E row \in rq.rows : row.id = u.entry}}
        inserted == {[id |-> rq.next + e.artifact_id, artifact_id |-> e.artifact_id,
                      scheduled_for |-> e.scheduled_for] : e \in inserts}
    IN  /\ run[r].state = "running"
        /\ staged # {}
        /\ IF conflict
           THEN /\ rq' = [rq EXCEPT !.staged[r] = {}]
                /\ tasks' = [tasks EXCEPT ![r] = [a \in Artifacts |->
                                IF tasks[r][a] = "none" THEN "none" ELSE "raised"]]
           ELSE /\ rq' = [rows |-> kept \cup updated \cup inserted,
                          staged |-> [rq.staged EXCEPT ![r] = {}],
                          next |-> rq.next + NArt]
                /\ UNCHANGED tasks
        /\ UNCHANGED <<rlvars, sent, dbvars, run, obj, dirty, expired, sweep, faults,
                       imvars, dscore, retry, sidevars>>

QueueNext ==
    \/ \E r \in Runs : ListRetry(r)
    \/ \E r \in Runs, a \in Artifacts : Claim(r, a)
    \/ \E r \in Runs, a \in Artifacts : FetchFail(r, a)
    \/ \E r \in Runs, a \in Artifacts, c \in Contents : FetchStore(r, a, c)
    \/ \E r \in Runs, a \in Artifacts : Finish(r, a)
    \/ \E r \in Runs : RetryFlush(r)
    \/ \E r \in Runs : RunEnd(r)
    \/ Tick

\* the continuous mode, by processes that can overlap, over a failed
\* artifact that has the ceiling of the column default and one or two
\* failures behind it
InitQueue ==
    /\ RLInit
    /\ DLRest({}, {1}, [a \in Artifacts |-> "ok"], [a \in Artifacts |-> a])
    /\ \E k \in [{1} -> 1..(default_max_retries - 1)] :
        db = [a \in Artifacts |->
                IF a = 1
                THEN [NewArtifact(a) EXCEPT !.status = "failed", !.retry_count = k[a],
                                            !.max_retries = default_max_retries,
                                            !.error_message = <<"error">>]
                ELSE Absent(a)]
    /\ app = [env |-> [present |-> TRUE, value |-> Customized],
              settings |-> Settings([present |-> TRUE, value |-> Customized]),
              headers |-> {}]
    /\ faults = [mode |-> "any", bad |-> {}]
    /\ retry = NoCall
    /\ rq = NoQueue
    /\ safe = NoSafe
    /\ calc = NoCalc

SpecQueue == InitQueue /\ [][QueueNext]_vars

\* download_artifact returned False to retry_failed_artifacts
RetryAttemptFailed(r, a) ==
    /\ run[r].mode = "retry"
    /\ tasks[r][a] = "claimed"
    /\ tasks'[r][a] = "done"
    /\ db'[a].status = "failed"

DownloadDelays == {0, 8, 16}

\* what one iteration of the loop of download_batch can meet: download_artifact
\* returns True, returns False with an error message that holds '429' or
\* with another one, or an exception escapes it
DownloadOutcomes == {"ok", "429", "failed", "raise"}

\* self.delay_between_downloads *= 1.5
slower(delay) == (delay * 3) \div 2

\* SafeDownloader.run, lines 148-176: the pending artifacts are queried once
\* (the artifact at position k of the result is k) and cut into batches
SafeRun(n, b, d) ==
    /\ safe.state = "idle"
    /\ safe' = [state |-> "running", total |-> n, batch_size |-> b, done |-> 0,
                configured |-> d, delay_between_downloads |-> d, rate_limited |-> 0,
                total_429_errors |-> 0, outcomes |-> <<>>]
    /\ UNCHANGED <<pipevars, retry, rq, calc>>

\* one iteration of the loop of download_batch, lines 60-101; on the first
\* artifact of a batch the count of the batch starts at 0 (line 57); after
\* the last one run adds what is left of the count to the total and stops
\* when the total is over 10 (lines 203-233)
SafeDownload(o) ==
    LET first == safe.done % safe.batch_size = 0
        last == (safe.done + 1) % safe.batch_size = 0 \/ safe.done + 1 = safe.total
        before == IF first THEN 0 ELSE safe.rate_limited
        counted == IF o = "429" THEN before + 1 ELSE before
        increase == o = "429" /\ counted >= 3
        after == IF increase THEN 0 ELSE counted
        total_429 == IF last THEN safe.total_429_errors + after ELSE safe.total_429_errors
    IN  /\ safe.state = "running"
        /\ safe.done < safe.total
        /\ safe' = [safe EXCEPT
                !.done = @ + 1,
                !.outcomes = Append(@, [artifact |-> safe.done + 1, outcome |-> o]),
                !.rate_limited = after,
                !.delay_between_downloads = IF increase THEN slower(@) ELSE @,
                !.total_429_errors = total_429,
                !.state = IF last /\ total_429 > 10 THEN "stopped" ELSE "running"]
        /\ UNCHANGED <<pipevars, retry, rq, calc>>

\* SafeDownloader.run, lines 235-262: the run is over
SafeEnd ==
    /\ \/ safe.state = "running" /\ safe.done = safe.total
       \/ safe.state = "stopped"
    /\ safe' = [safe EXCEPT !.state = "completed"]
    /\ UNCHANGED <<pipevars, retry, rq, calc>>

SafeNext ==
    \/ \E n \in 1..MaxList, b \in 1..MaxBatch, d \in DownloadDelays : SafeRun(n, b, d)
    \/ \E o \in DownloadOutcomes : SafeDownload(o)
    \/ SafeEnd

InitSafe == Quiet /\ retry = NoCall /\ rq = NoQueue /\ safe = NoSafe /\ calc = NoCalc

SpecSafe == InitSafe /\ [][SafeNext]_vars

\* the delay the rule "every third 429 since the last increase multiplies
\* the delay by 1.5" gives after the outcomes os, from the delay d and the
\* count c
RECURSIVE Slowdown(_, _, _)
Slowdown(os, d, c) ==
    IF os = <<>> THEN d
    ELSE IF Head(os).outcome # "429" THEN Slowdown(Tail(os), d, c)
    ELSE IF c + 1 = 3 THEN Slowdown(Tail(os), (d * 3) \div 2, 0)
    ELSE Slowdown(Tail(os), d, c + 1)

FormK == <<"K">>
FormKA == <<"K", "/", "A">>
FormQ == <<"Q">>
FormNA == <<"N", "A">>
Forms == {FormK, FormKA, FormQ, FormNA}

\* the form_types argument
FormTypeSets == {{FormK, FormQ}, {FormK, FormKA, FormNA}, {FormKA}}

\* filing dates; a bound of the window is a date or None
Dates == 1..MaxDate
None == 0

\* the 'recent' object of a submissions document: parallel arrays
RecentFilings ==
    UNION {{[form |-> [i \in 1..n |-> e[i][1]],
             filingDate |-> [i \in 1..n |-> e[i][2]],
             accessionNumber |-> [i \in 1..n |-> i]] :
                e \in [1..n -> Forms \X Dates]} : n \in 0..MaxFeed}

\* str.endswith
endswith(str, suffix) ==
    /\ Len(str) >= Len(suffix)
    /\ SubSeq(str, Len(str) - Len(suffix) + 1, Len(str)) = suffix

\* lines 262-266: the date filter
in_window_exclusive(filing_date, start_date, end_date) ==
    /\ ~(start_date # None /\ filing_date <= start_date)
    /\ ~(end_date # None /\ filing_date >= end_date)
in_window(filing_date, start_date, end_date) ==
    /\ ~(start_date # None /\ filing_date < start_date)
    /\ ~(end_date # None /\ filing_date > end_date)

\* the loop of lines 253-279 from position i on
RECURSIVE parse_from(_, _, _, _, _)
parse_from(recent_filings, form_types, start_date, end_date, i) ==
    IF i > Len(recent_filings.accessionNumber) THEN <<>>
    ELSE LET form == recent_filings.form[i]
             filing_date == recent_filings.filingDate[i]
             rest == parse_from(recent_filings, form_types, start_date, end_date, i + 1)
         IN  IF form \notin form_types THEN rest
             ELSE IF ~in_window(filing_date, start_date, end_date) THEN rest
             ELSE <<[accession_number |-> recent_filings.accessionNumber[i],
                     form_type |-> form,
                     filing_date |-> filing_date,
                     is_amendment |-> endswith(form, <<"/", "A">>)]>> \o rest

parse_filings(recent_filings, form_types, start_date, end_date) ==
    parse_from(recent_filings, form_types, start_date, end_date, 1)

\* one call of parse_filings
ParseFilings(recent_filings, form_types, start_date, end_date) ==
    /\ calc.op = "none"
    /\ calc' = [op |-> "parse_filings", feed |-> recent_filings, form_types |-> form_types,
                start_date |-> start_date, end_date |-> end_date,
                result |-> parse_filings(recent_filings, form_types, start_date, end_date)]
    /\ UNCHANGED <<pipevars, retry, rq, safe>>

ParseNext ==
    /\ calc.op = "none"
    /\ \E f \in RecentFilings, t \in FormTypeSets,
          s \in {None} \cup Dates, e \in {None} \cup Dates : ParseFilings(f, t, s, e)

InitParse == Quiet /\ retry = NoCall /\ rq = NoQueue /\ safe = NoSafe /\ calc = NoCalc

SpecParse == InitParse /\ [][ParseNext]_vars

\* the positions of the feed that are of a configured form type and inside
\* the window
Selected ==
    {i \in 1..Len(calc.feed.form) :
        /\ calc.feed.form[i] \in calc.form_types
        /\ calc.start_date # None => calc.start_date <= calc.feed.filingDate[i]
        /\ calc.end_date # None => calc.feed.filingDate[i] <= calc.end_date}

Str10K == <<"1", "0", "-", "K">>
Str10Q == <<"1", "0", "-", "Q">>
Str20F == <<"2", "0", "-", "F">>
Str40F == <<"4", "0", "-", "F">>
Str6K == <<"6", "-", "K">>
Amended(form) == form \o <<"/", "A">>

\* BackfillJob.FORM_TYPES
FORM_TYPES == {Str10K, Amended(Str10K), Str10Q, Amended(Str10Q)}
\* FORM_TYPES_FOREIGN, and FORM_TYPES of the improved foreign backfill
FORM_TYPES_FOREIGN == {Str20F, Amended(Str20F), Str40F, Amended(Str40F), Str6K, Amended(Str6K)}

\* the keys of FISCAL_PERIODS_FOREIGN with their values
FISCAL_PERIODS_FOREIGN(form_type) ==
    IF form_type \in {Str20F, Amended(Str20F), Str40F, Amended(Str40F)} THEN "FY"
    ELSE IF form_type \in {Str6K, Amended(Str6K)} THEN "6K"
    ELSE "missing"

\* the jobs that create filings, with the form types they ask parse_filings for
FiscalJobs == {"backfill", "foreign", "foreign_improved"}
FormTypesOf(job) == IF job = "backfill" THEN FORM_TYPES ELSE FORM_TYPES_FOREIGN

\* reportDate of the feed: YYYY-MM-DD for every month and a first and a last
\* day, an empty string, or no value
ReportDates ==
    {<<"2", "0", "2", "3", "-", Digit(m \div 10), Digit(m % 10), "-", d[1], d[2]>> :
        m \in 1..12, d \in {<<"0", "1">>, <<"2", "8">>}} \cup {<<>>, <<"None">>}

\* sub in str
has_substring(str, sub) ==
    \E k \in 1..(Len(str) - Len(sub) + 1) : SubSeq(str, k, k + Len(sub) - 1) = sub

\* str.split('-')[1]
RECURSIVE after_dash(_)
after_dash(str) ==
    IF str = <<>> THEN <<>>
    ELSE IF Head(str) = "-" THEN Tail(str) ELSE after_dash(Tail(str))
split_second(str) == split_first(after_dash(str))

\* int(str) of a string of digits
RECURSIVE int(_)
int(str) ==
    IF str = <<>> THEN 0
    ELSE 10 * int(SubSeq(str, 1, Len(str) - 1))
            + (CHOOSE n \in 0..9 : Digit(n) = str[Len(str)])

\* lines 53-60: the quarter of a month
quarter_of_next_month(month) ==
    IF month \in {1, 2} THEN "Q1"
    ELSE IF month \in {3, 4, 5} THEN "Q2"
    ELSE IF month \in {6, 7, 8} THEN "Q3"
    ELSE "Q4"
quarter(month) ==
    IF month \in {1, 2, 3} THEN "Q1"
    ELSE IF month \in {4, 5, 6} THEN "Q2"
    ELSE IF month \in {7, 8, 9} THEN "Q3"
    ELSE "Q4"

\* BackfillJob.determine_fiscal_period
determine_fiscal_period(form_type, report_date) ==
    IF has_substring(form_type, Str10K) THEN "FY"
    ELSE IF report_date \notin {<<>>, <<"None">>}
         THEN quarter(int(split_second(report_date)))
         ELSE "Q4"

\* map_fiscal_period: FISCAL_PERIODS_FOREIGN.get(form_type, 'FY')
map_fiscal_period(form_type, report_date) ==
    IF FISCAL_PERIODS_FOREIGN(form_type) # "missing"
    THEN FISCAL_PERIODS_FOREIGN(form_type) ELSE "FY"

\* ImprovedForeignBackfillJob.determine_fiscal_period
determine_fiscal_period_foreign(form_type, report_date) ==
    IF has_substring(form_type, Str20F) \/ has_substring(form_type, Str40F) THEN "FY"
    ELSE IF has_substring(form_type, Str6K) THEN "6K"
    ELSE "OTHER"

\* process_company_filings of a job gives a new filing its fiscal period
FiscalPeriod(job, form_type, report_date) ==
    /\ calc.op = "none"
    /\ calc' = [op |-> "fiscal_period", job |-> job, form_type |-> form_type,
                report_date |-> report_date,
                result |-> IF job = "backfill"
                           THEN determine_fiscal_period(form_type, report_date)
                           ELSE IF job = "foreign"
                           THEN map_fiscal_period(form_type, report_date)
                           ELSE determine_fiscal_period_foreign(form_type, report_date)]
    /\ UNCHANGED <<pipevars, retry, rq, safe>>

FiscalNext ==
    /\ calc.op = "none"
    /\ \E job \in FiscalJobs, d \in ReportDates :
        \E f \in FormTypesOf(job) : FiscalPeriod(job, f, d)

InitFiscal == Quiet /\ retry = NoCall /\ rq = NoQueue /\ safe = NoSafe /\ calc = NoCalc

SpecFiscal == InitFiscal /\ [][FiscalNext]_vars

\* the month of a report date, 0 when there is none
ReportMonth(d) == IF Len(d) < 10 THEN 0 ELSE int(<<d[6], d[7]>>)

WaitCall(t) ==
    /\ request_count[ClientOf(t)] < MaxCalls
    /\ WaitEnter(t)

\* time.sleep(sleep_time), line 49: the clock goes on while a caller sleeps
SleepTick ==
    /\ \E t \in Threads : tpc[t] = "inwait" /\ now < wakeAt[t]
    /\ now' = now + 1
    /\ UNCHANGED <<last_request_time, request_count, lock, tpc, wakeAt, sent, dlvars>>

WaitNext ==
    \/ Tick
    \/ SleepTick
    \/ \E t \in Threads : WaitCall(t)
    \/ \E t \in Threads : WaitExit(t)

InitWait == RLInit /\ DLInit({}, {}) /\ faults = [mode |-> "plan", bad |-> {}]

\* the clock goes on and a thread that can run does run
SpecWait ==
    /\ InitWait /\ [][WaitNext]_vars
    /\ WF_vars(SleepTick)
    /\ \A t \in Threads : WF_vars(WaitExit(t))

\* the thread t returns from wait()
Returns(t) == tpc[t] = "inwait" /\ tpc'[t] = "idle"

ArtifactRows ==
    {[status |-> db[a].status, sha256 |-> db[a].sha256, local_path |-> db[a].local_path] :
        a \in Artifacts}
    \cup {[status |-> i.status, sha256 |-> i.sha256, local_path |-> i.local_path] :
            i \in images}

\* C40: every artifact with the status skipped has the hash and the local
\* path of an artifact with the status downloaded: it points at bytes that a
\* downloaded artifact wrote
C40_SkippedHasOriginal ==
    \A x \in ArtifactRows :
        x.status = "skipped" =>
            \E y \in ArtifactRows :
                /\ y.status = "downloaded"
                /\ y.sha256 = x.sha256
                /\ y.local_path = x.local_path

====
